---- MODULE Spec2Model ----
(***************************************************************************)
(* Model of inertia-rust: the property resolver (props.rs), the request    *)
(* helpers and render_with_props of the actix provider                     *)
(* (providers/actix_provider/impls.rs) and InertiaMiddleware               *)
(* (providers/actix_provider/middleware.rs), the configuration builder     *)
(* (config.rs) and the handle of the SSR renderer process                  *)
(* (node_process.rs).                                                      *)
(*                                                                         *)
(* Strings are TLA+ strings.  A serde_json Map / a HashMap is a function   *)
(* whose DOMAIN is its key set.  A Vec<String> is a sequence.              *)
(***************************************************************************)
EXTENDS Integers, Sequences, FiniteSets, TLC

VARIABLES
    raw_props,      \* resolve_props: the property table handed to the resolver
    req_type,       \* resolve_props: the request type handed to the resolver
    resolved,       \* resolve_props: its outcome, NotCalled before the call
    classified,     \* get_request_type: its Result, NotClassified before
    inertia,        \* the Inertia instance built at bootstrap
    app,            \* the actix App: app data, middleware, shared props
    storage,        \* the sessions the reflash callback has persisted
    served,         \* number of requests received so far
    request,        \* per slot: the HttpRequest being handled
    extensions,     \* per slot: the request's extensions
    locals,         \* per slot: locals of the middleware and of the render
    pc,             \* per slot: where the handling of the request stands
    response,       \* per slot: the response sent, None until there is one
    trace,          \* per slot: the calls made while handling the request
    builder,        \* the InertiaConfigBuilder in hand, None once moved
    config,         \* the outcome of InertiaConfigBuilder::build, None before
    setters,        \* the setter calls made on the builder so far
    node,           \* the SSR renderer: child process, handle, kill future
    main            \* the server program: where its main function stands

\* ------------------------------------------------------------------------
\* Bounds
\* ------------------------------------------------------------------------

\* Longest only list and longest except list of the partial requests
\* explored for the resolver.
MaxNames == 2

\* Number of requests received, one after the other.
MaxRequests == 2

\* ------------------------------------------------------------------------
\* Data model
\* ------------------------------------------------------------------------

\* Property names of the explored tables.
Keys == {"auth", "categories", "events"}

\* serde_json values a property can hold or a thunk can return.
Values == {"x", "y"}

\* Option<T>: None is the empty set, Some(x) the singleton of x.
None == {}

Some(x) == {x}

is_some(opt) == opt # {}

unwrap(opt) == CHOOSE x \in opt : TRUE

\* A text that may contain commas is held as the sequence of its
\* comma-separated pieces, which is what str::split(",") yields: "a,b" is
\* <<"a", "b">>, "" is <<"">>.  Str(s) is the text of a comma-free string.
Str(s) == <<s>>

\* Component names, as carried by x-inertia-partial-component.
Components == {Str("Events"), Str("Index")}

\* The four variants of InertiaProp.  For Data and Always `value` is the
\* stored value; for Lazy and Demand it is what the stored thunk returns.
PropKinds == {"Data", "Lazy", "Always", "Demand"}

InertiaProp == [kind : PropKinds, value : Values]

\* The variants that hold a thunk instead of a value.
IsThunk(prop) == prop.kind \in {"Lazy", "Demand"}

\* HashMap<String, InertiaProp> over the explored keys.
InertiaProps == UNION {[D -> InertiaProp] : D \in SUBSET Keys}

\* Sequences over S of length at most n.
SeqUpTo(S, n) == UNION {[1..m -> S] : m \in 0..n}

PartialComponent(component, only, except) ==
    [component |-> component, only |-> only, except |-> except]

Standard == [type |-> "Standard"]

Partial(partials) == [type |-> "Partial", partials |-> partials]

is_standard(rt) == rt.type = "Standard"

unwrap_partial(rt) == rt.partials

\* The request types explored for the resolver.
RequestTypes ==
    {Standard} \cup
    {Partial(PartialComponent(c, o, e)) :
        c \in Components,
        o \in SeqUpTo(Keys, MaxNames),
        e \in SeqUpTo(Keys, MaxNames)}

\* ------------------------------------------------------------------------
\* props.rs
\* ------------------------------------------------------------------------

\* Vec::contains
Contains(vec, item) == \E i \in 1..Len(vec) : vec[i] = item

\* Map::new / HashMap::new
EmptyMap == [k \in {} |-> "x"]

\* Map::insert
Insert(map, key, value) ==
    [k \in DOMAIN map \cup {key} |-> IF k = key THEN value ELSE map[k]]

Extend_keeps_existing(map, other) ==
    [k \in DOMAIN map \cup DOMAIN other |->
        IF k \in DOMAIN map THEN map[k] ELSE other[k]]

\* Map::extend: the entries of `other` overwrite those of `map`.
Extend(map, other) ==
    [k \in DOMAIN map \cup DOMAIN other |->
        IF k \in DOMAIN other THEN other[k] ELSE map[k]]

\* The resolver's running state: the map built so far and, for every key
\* of the table, how many times its thunk has been invoked.
NewAcc(table) == [props |-> EmptyMap, calls |-> [k \in DOMAIN table |-> 0]]

\* props.insert(key, value) with a value that is already at hand.
PushValue(acc, key, prop) ==
    [acc EXCEPT !.props = Insert(acc.props, key, prop.value)]

\* props.insert(key, resolver()): the thunk runs, then its value is stored.
PushInvoked(acc, key, prop) ==
    [props |-> Insert(acc.props, key, prop.value),
     calls |-> [acc.calls EXCEPT ![key] = @ + 1]]

should_be_pushed_only_or_except(key, partial) ==
    Contains(partial.only, key) \/ ~Contains(partial.except, key)

should_be_pushed(key, partial) ==
    \/ Contains(partial.only, key)
    \/ (Len(partial.only) = 0 /\ ~Contains(partial.except, key))

resolve_prop_unconditionally(acc, key, prop) ==
    IF IsThunk(prop) THEN PushInvoked(acc, key, prop)
    ELSE PushValue(acc, key, prop)

StandardEntry_keeps_demand(acc, key, prop) ==
    resolve_prop_unconditionally(acc, key, prop)

\* Body of the loop over the table on a standard visit.
StandardEntry(acc, key, prop) ==
    IF prop.kind = "Demand" THEN acc
    ELSE resolve_prop_unconditionally(acc, key, prop)

PartialEntry_filters_always(acc, key, prop, partials) ==
    IF should_be_pushed(key, partials)
    THEN (IF IsThunk(prop) THEN PushInvoked(acc, key, prop)
          ELSE PushValue(acc, key, prop))
    ELSE acc

PartialEntry_eager_thunks(acc, key, prop, partials) ==
    CASE prop.kind = "Always" -> PushValue(acc, key, prop)
      [] prop.kind = "Data" ->
            IF should_be_pushed(key, partials)
            THEN PushValue(acc, key, prop) ELSE acc
      [] OTHER ->
            IF should_be_pushed(key, partials)
            THEN PushInvoked(acc, key, prop)
            ELSE [acc EXCEPT !.calls[key] = @ + 1]

\* Body of the loop over the table on a partial reload: the match on the
\* variant.
PartialEntry(acc, key, prop, partials) ==
    CASE prop.kind = "Always" -> PushValue(acc, key, prop)
      [] prop.kind = "Data" ->
            IF should_be_pushed(key, partials)
            THEN PushValue(acc, key, prop) ELSE acc
      [] prop.kind = "Lazy" ->
            IF should_be_pushed(key, partials)
            THEN PushInvoked(acc, key, prop) ELSE acc
      [] prop.kind = "Demand" ->
            IF should_be_pushed(key, partials)
            THEN PushInvoked(acc, key, prop) ELSE acc

\* for (key, value) in raw_props.iter(): the entries still to visit are
\* `todo`; HashMap iteration order is unspecified and every entry is
\* visited once.
RECURSIVE IterProps(_, _, _, _)
IterProps(table, todo, rt, acc) ==
    IF todo = {} THEN acc
    ELSE LET key == CHOOSE k \in todo : TRUE
             next == IF is_standard(rt)
                     THEN StandardEntry(acc, key, table[key])
                     ELSE PartialEntry(acc, key, table[key],
                                       unwrap_partial(rt))
         IN  IterProps(table, todo \ {key}, rt, next)

\* InertiaProp::resolve_props.  `props` is the returned map, `calls` the
\* number of invocations of each entry's thunk during the call.
resolve_props(table, rt) ==
    IterProps(table, DOMAIN table, rt, NewAcc(table))

\* ------------------------------------------------------------------------
\* inertia.rs, page.rs, temporary_session.rs: names and records
\* ------------------------------------------------------------------------

X_INERTIA == "x-inertia"

X_INERTIA_LOCATION == "x-inertia-location"

X_INERTIA_VERSION == "x-inertia-version"

X_INERTIA_PARTIAL_COMPONENT == "x-inertia-partial-component"

X_INERTIA_PARTIAL_DATA == "x-inertia-partial-data"

X_INERTIA_PARTIAL_EXCEPT == "x-inertia-partial-except"

\* The request headers the library reads.
RequestHeaderNames ==
    {X_INERTIA, X_INERTIA_VERSION, X_INERTIA_PARTIAL_COMPONENT,
     X_INERTIA_PARTIAL_DATA, X_INERTIA_PARTIAL_EXCEPT}

\* actix_web::http::header::LOCATION and CONTENT_TYPE
LOCATION == "location"

CONTENT_TYPE == "content-type"

\* Asset versions.
Versions == {"v1", "v2"}

\* InertiaVersion: a literal, or a resolver, held as the value it returns
\* when it is called.
Literal(v) == [kind |-> "Literal", value |-> v]

Resolver(v) == [kind |-> "Resolver", value |-> v]

\* The versions the explored instances are built from: a literal and a
\* resolver.  The requests carry either version, so each instance meets
\* fresh and stale requests.
InertiaVersions == {Literal("v1"), Resolver("v2")}

\* The root layout and the template resolver the explored instances are
\* built with: those of the tests' application for the literal version,
\* those of examples/actix_ssr for the resolved one.
TemplateOf(version) ==
    IF version.kind = "Literal"
    THEN [path |-> "tests/common/root_layout.html",
          resolver |-> "mocked_resolver"]
    ELSE [path |-> "www/root.html", resolver |-> "basic_vite_resolver"]

instantiate_resolves_twice(template_path, version, template_resolver, ssr_url) ==
    [version |-> version.value, ssr_url |-> ssr_url,
     template_path |-> template_path,
     template_resolver |-> template_resolver,
     custom_view_data |-> EmptyMap,
     configured |-> version,
     resolver_calls |-> IF version.kind = "Resolver" THEN 2 ELSE 0]

\* Inertia::instantiate: the fields of the instance the model reads, and,
\* next to them, the InertiaVersion it was built from and the number of
\* calls of its resolver.
instantiate(template_path, version, template_resolver, ssr_url) ==
    [version |-> version.value, ssr_url |-> ssr_url,
     template_path |-> template_path,
     template_resolver |-> template_resolver,
     custom_view_data |-> EmptyMap,
     configured |-> version,
     resolver_calls |-> IF version.kind = "Resolver" THEN 1 ELSE 0]

\* InertiaPage::new
InertiaPage(component, url, version, props) ==
    [component |-> component, url |-> url, props |-> props,
     version |-> version]

\* InertiaTemporarySession; the errors map is held as one JSON token.
ErrorMaps == {"{foo: enemies}"}

InertiaTemporarySession ==
    [errors : {None} \cup {Some(e) : e \in ErrorMaps}, prev_req_url : {"/"}]

\* serde_json::to_value of an Option<Map>: null for None, else the object.
to_value(opt) == IF opt = None THEN "null" ELSE unwrap(opt)

\* ------------------------------------------------------------------------
\* HTTP values (actix_web)
\* ------------------------------------------------------------------------

\* A HeaderValue holding visible ASCII text, as its comma-separated pieces.
Text(pieces) == [ascii |-> TRUE, pieces |-> pieces]

\* A HeaderValue with a byte outside visible ASCII: to_str() fails on it.
NonAscii == [ascii |-> FALSE, pieces |-> <<>>]

\* HeaderValue::to_str().is_ok()
to_str_ok(value) == value.ascii

\* HeaderValue::to_str().unwrap()
to_str(value) == value.pieces

\* HeaderValue::is_empty(): the value has no byte.
is_empty(value) == value.ascii /\ value.pieces = Str("")

\* Result<T, E>
Ok(v) == [ok |-> TRUE, value |-> v]

Err(e) == [ok |-> FALSE, error |-> e]

\* error.rs: an InertiaError is one of its variants with the cause it
\* holds, a text written as the pieces format! puts together.
InertiaError(kind, cause) == [kind |-> kind, cause |-> cause]

\* node_process.rs: NodeJsError::new; `description` is a text in pieces.
NodeJsError(cause, description) ==
    [cause |-> cause, description |-> description]

\* InertiaError::get_cause: the text the variant holds; for a NodeJsError,
\* format!("{} ({})", cause, description).
get_cause(err) ==
    IF err.kind = "NodeJsError"
    THEN <<err.cause.cause, " (">> \o err.cause.description \o <<")">>
    ELSE err.cause

\* InertiaError::to_io_error
to_io_error(err) == [kind |-> "Other", error |-> get_cause(err)]

OK == 200

MOVED_PERMANENTLY == 301

FOUND == 302

SEE_OTHER == 303

CONFLICT == 409

INTERNAL_SERVER_ERROR == 500

\* Response bodies: nothing, a text, the JSON of a page, or the HTML the
\* template resolver made of a ViewData.
NoBody == [content |-> "none", page |-> None, ssr_page |-> None]

TextBody(text) ==
    [content |-> "text", text |-> text, page |-> None, ssr_page |-> None]

JsonBody(page) == [content |-> "json", page |-> Some(page), ssr_page |-> None]

HtmlBody(view_data) ==
    [content |-> "html", page |-> Some(view_data.page),
     ssr_page |-> view_data.ssr_page]

HttpResponse(status, headers, body) ==
    [status |-> status, headers |-> headers, body |-> body]

\* ------------------------------------------------------------------------
\* providers/actix_provider/impls.rs
\* ------------------------------------------------------------------------

respond_to_without_flag(page) ==
    HttpResponse(OK, (CONTENT_TYPE :> "application/json"), JsonBody(page))

\* impl Responder for InertiaPage
respond_to(page) ==
    HttpResponse(OK, (X_INERTIA :> "true"), JsonBody(page))

\* impl ResponseError for InertiaError: what a handler's Err becomes, a
\* 500 declared as JSON whose body is the cause of the error.
error_response(err) ==
    HttpResponse(INTERNAL_SERVER_ERROR,
                 (CONTENT_TYPE :> "application/json"),
                 TextBody(get_cause(err)))

is_inertia_request(req) ==
    LET header == req.headers[X_INERTIA]
    IN  IF header = None THEN FALSE ELSE ~is_empty(unwrap(header))

extract_partials_headers_content(req, header_name) ==
    LET header == req.headers[header_name]
    IN  IF header = None THEN Ok(<<>>)
        ELSE IF to_str_ok(unwrap(header)) THEN Ok(to_str(unwrap(header)))
        ELSE Err(InertiaError("HeaderError",
                <<"Header ", header_name,
                  "'s value must contain only printable ASCII characters.">>))

get_request_type_needs_hydration(req) ==
    LET partial_comp == req.headers[X_INERTIA_PARTIAL_COMPONENT]
        only == extract_partials_headers_content(req, X_INERTIA_PARTIAL_DATA)
        except ==
            extract_partials_headers_content(req, X_INERTIA_PARTIAL_EXCEPT)
    IN  IF partial_comp = None \/ ~is_inertia_request(req) THEN Ok(Standard)
        ELSE IF ~to_str_ok(unwrap(partial_comp))
             THEN Err(InertiaError("SerializationError",
                    <<"Failed to serialize header ",
                      X_INERTIA_PARTIAL_COMPONENT>>))
        ELSE IF ~only.ok THEN only
        ELSE IF ~except.ok THEN except
        ELSE Ok(Partial(PartialComponent(to_str(unwrap(partial_comp)),
                                         only.value, except.value)))

get_request_type(req) ==
    LET partial_comp == req.headers[X_INERTIA_PARTIAL_COMPONENT]
        only == extract_partials_headers_content(req, X_INERTIA_PARTIAL_DATA)
        except ==
            extract_partials_headers_content(req, X_INERTIA_PARTIAL_EXCEPT)
    IN  IF partial_comp = None THEN Ok(Standard)
        ELSE IF ~to_str_ok(unwrap(partial_comp))
             THEN Err(InertiaError("SerializationError",
                    <<"Failed to serialize header ",
                      X_INERTIA_PARTIAL_COMPONENT>>))
        ELSE IF ~only.ok THEN only
        ELSE IF ~except.ok THEN except
        ELSE Ok(Partial(PartialComponent(to_str(unwrap(partial_comp)),
                                         only.value, except.value)))

check_inertia_version_absent_is_stale(req, current_version) ==
    LET header == req.headers[X_INERTIA_VERSION]
    IN  IF header = None THEN FALSE
        ELSE IF to_str_ok(unwrap(header))
             THEN to_str(unwrap(header)) = Str(current_version)
             ELSE FALSE

check_inertia_version(req, current_version) ==
    LET header == req.headers[X_INERTIA_VERSION]
    IN  IF header = None THEN TRUE
        ELSE IF to_str_ok(unwrap(header))
             THEN to_str(unwrap(header)) = Str(current_version)
             ELSE FALSE

location_always_found(req, url) ==
    HttpResponse(FOUND, (LOCATION :> url), NoBody)

\* Inertia::location
location(req, url) ==
    IF ~is_inertia_request(req)
    THEN HttpResponse(FOUND, (LOCATION :> url), NoBody)
    ELSE HttpResponse(CONFLICT, (X_INERTIA_LOCATION :> url), NoBody)

\* Inertia::check_and_handle_version_mismatch.  `refresh` is the Err of its
\* Result, `ext` the request extensions it leaves, `reflash` the arguments
\* of its calls of self.reflash_inertia_session, `checks` the results of
\* its calls of check_inertia_version.
check_and_handle_version_mismatch(self, req, ext) ==
    LET checks == IF is_inertia_request(req)
                  THEN <<check_inertia_version(req, self.version)>>
                  ELSE <<>>
    IN  IF is_inertia_request(req)
           /\ ~check_inertia_version(req, self.version)
        THEN [refresh |-> Some(location(req, req.uri)),
              ext     |-> [ext EXCEPT !.session = None],
              reflash |-> <<ext.session>>,
              checks  |-> checks]
        ELSE [refresh |-> None, ext |-> ext, reflash |-> <<>>,
              checks  |-> checks]

\* What render_with_props has done when it returns or reaches an await:
\* `next` is "return", "ssr" (awaiting request_page_render) or "template"
\* (awaiting the template resolver), `result` its Result when it returned.
RenderStep(next, result, page, vm, route_calls, shared_calls) ==
    [next |-> next, result |-> result, page |-> page, ext |-> vm.ext,
     forced |-> is_some(vm.refresh),
     reflash |-> vm.reflash, checks |-> vm.checks,
     route_calls |-> route_calls, shared_calls |-> shared_calls]

\* check_and_handle_version_mismatch has not been reached.
NotChecked(ext) ==
    [refresh |-> None, ext |-> ext, reflash |-> <<>>, checks |-> <<>>]

\* The thunk calls of a table nothing has been resolved from.
NoCalls(table) == NewAcc(table).calls

SharedTable(ext) == IF is_some(ext.shared) THEN unwrap(ext.shared) ELSE EmptyMap

render_with_props_resolves_first(self, req, ext, component, props) ==
    LET url == req.uri
        rt == get_request_type(req)
        vm == check_and_handle_version_mismatch(self, req, ext)
        route == resolve_props(props, rt.value)
        shared == resolve_props(SharedTable(ext), rt.value)
        page == InertiaPage(component, url, Some(self.version),
                            Extend(route.props, shared.props))
    IN  IF ~rt.ok
        THEN RenderStep("return", Some(rt), None,
                        NotChecked(ext),
                        NoCalls(props), NoCalls(SharedTable(ext)))
        ELSE IF is_some(vm.refresh)
        THEN RenderStep("return", Some(Ok(unwrap(vm.refresh))), None, vm,
                        route.calls, shared.calls)
        ELSE IF is_inertia_request(req)
        THEN RenderStep("return", Some(Ok(respond_to(page))), Some(page), vm,
                        route.calls, shared.calls)
        ELSE RenderStep(IF is_some(self.ssr_url) THEN "ssr" ELSE "template",
                        None, Some(page), vm, route.calls, shared.calls)

render_with_props_compares_component(self, req, ext, component, props) ==
    LET url == req.uri
        rt == get_request_type(req)
        vm == check_and_handle_version_mismatch(self, req, ext)
        kind == IF rt.ok /\ ~is_standard(rt.value)
                         /\ unwrap_partial(rt.value).component # Str(component)
                THEN Standard ELSE rt.value
        route == resolve_props(props, kind)
        shared == resolve_props(SharedTable(ext), kind)
        page == InertiaPage(component, url, Some(self.version),
                            Extend(route.props, shared.props))
    IN  IF ~rt.ok
        THEN RenderStep("return", Some(rt), None,
                        NotChecked(ext),
                        NoCalls(props), NoCalls(SharedTable(ext)))
        ELSE IF is_some(vm.refresh)
        THEN RenderStep("return", Some(Ok(unwrap(vm.refresh))), None, vm,
                        NoCalls(props), NoCalls(SharedTable(ext)))
        ELSE IF is_inertia_request(req)
        THEN RenderStep("return", Some(Ok(respond_to(page))), Some(page), vm,
                        route.calls, shared.calls)
        ELSE RenderStep(IF is_some(self.ssr_url) THEN "ssr" ELSE "template",
                        None, Some(page), vm, route.calls, shared.calls)

\* Inertia::render_with_props up to its first await (or its return when it
\* has none): classification, version check, resolution of the route props
\* and of the shared props, the page, the JSON response.
render_with_props(self, req, ext, component, props) ==
    LET url == req.uri
        rt == get_request_type(req)
        vm == check_and_handle_version_mismatch(self, req, ext)
        route == resolve_props(props, rt.value)
        shared == resolve_props(SharedTable(ext), rt.value)
        page == InertiaPage(component, url, Some(self.version),
                            Extend(route.props, shared.props))
    IN  IF ~rt.ok
        THEN RenderStep("return", Some(rt), None,
                        NotChecked(ext),
                        NoCalls(props), NoCalls(SharedTable(ext)))
        ELSE IF is_some(vm.refresh)
        THEN RenderStep("return", Some(Ok(unwrap(vm.refresh))), None, vm,
                        NoCalls(props), NoCalls(SharedTable(ext)))
        ELSE IF is_inertia_request(req)
        THEN RenderStep("return", Some(Ok(respond_to(page))), Some(page), vm,
                        route.calls, shared.calls)
        ELSE RenderStep(IF is_some(self.ssr_url) THEN "ssr" ELSE "template",
                        None, Some(page), vm, route.calls, shared.calls)

\* The tail of render_with_props: the response made of the resolver's html.
html_response(view_data) ==
    HttpResponse(OK,
                 (X_INERTIA :> "true") @@ (CONTENT_TYPE :> "text/html"),
                 HtmlBody(view_data))

\* ViewData
ViewData(page, ssr_page, custom_props) ==
    [page |-> page, ssr_page |-> ssr_page, custom_props |-> custom_props]

\* ------------------------------------------------------------------------
\* providers/actix_provider/middleware.rs
\* ------------------------------------------------------------------------

with_session_errors_as_data(shared_props, inertia_temporary_session) ==
    IF is_some(inertia_temporary_session)
    THEN Insert(shared_props, "errors",
                [kind  |-> "Data",
                 value |-> to_value(unwrap(inertia_temporary_session).errors)])
    ELSE shared_props

\* InertiaMiddlewareService::call, before the future: the shared props the
\* request carries from then on.
with_session_errors(shared_props, inertia_temporary_session) ==
    IF is_some(inertia_temporary_session)
    THEN Insert(shared_props, "errors",
                [kind  |-> "Always",
                 value |-> to_value(unwrap(inertia_temporary_session).errors)])
    ELSE shared_props

is_latest_version_or_no_instance(inr, http_req) ==
    IF inr = None THEN TRUE
    ELSE check_inertia_version(http_req, unwrap(inr).version)

\* is_latest_version of InertiaMiddlewareService::call; `inr` is the
\* Option<Data<Inertia>> found in the app data.
is_latest_version(inr, http_req) ==
    IF inr = None THEN FALSE
    ELSE check_inertia_version(http_req, unwrap(inr).version)

rewritten_status_skips_patch(req_method, res_status) ==
    IF req_method \in {"PUT", "DELETE"}
       /\ (res_status = MOVED_PERMANENTLY \/ res_status = FOUND)
    THEN SEE_OTHER
    ELSE res_status

\* The status InertiaMiddlewareService::call returns for the inner
\* service's response.
rewritten_status(req_method, res_status) ==
    IF req_method \in {"PATCH", "PUT", "DELETE"}
       /\ (res_status = MOVED_PERMANENTLY \/ res_status = FOUND)
    THEN SEE_OTHER
    ELSE res_status

\* ------------------------------------------------------------------------
\* The application and its requests
\* ------------------------------------------------------------------------

\* Request slots.  Requests handled one after the other use slot 1.
Slots == {1, 2}

SeqSlots == {1}

\* The props of the events page: one entry of each variant.
EventsProps ==
    [k \in {"auth", "categories", "events", "radioStatus"} |->
        CASE k = "auth"        -> [kind |-> "Always", value |-> "x"]
          [] k = "categories"  -> [kind |-> "Data",   value |-> "y"]
          [] k = "events"      -> [kind |-> "Lazy",   value |-> "x"]
          [] k = "radioStatus" -> [kind |-> "Demand", value |-> "y"]]

\* `on_err` is what the handler does with an Err of render_with_props:
\* "finish" answers InternalServerError().finish() (home, with_props of the
\* tests), "return" returns the Result (inertia_route, the examples).
Route(method, uri, handler, component, props, status, on_err) ==
    [method |-> method, uri |-> uri, handler |-> handler,
     component |-> component, props |-> props, status |-> status,
     on_err |-> on_err]

\* The services of the App: two pages rendered with render_with_props, one
\* by a handler that matches on the Result and one by a handler that
\* returns it, and three handlers that answer with a redirect to "/".
Routes ==
    {Route("GET", "/", "render", "Index", EmptyMap, OK, "finish"),
     Route("GET", "/events", "render", "Events", EventsProps, OK, "return"),
     Route("PUT", "/redirect", "redirect", "", EmptyMap, MOVED_PERMANENTLY,
           "return"),
     Route("POST", "/redirect", "redirect", "", EmptyMap, SEE_OTHER,
           "return"),
     Route("DELETE", "/redirect", "redirect", "", EmptyMap, FOUND,
           "return")}

\* The shared props callbacks of the middleware: the default one, and one
\* that shares an Always, a Lazy and a Data prop named like a route prop.
SharedPropsCallbacks ==
    {EmptyMap,
     [k \in {"sharedProperty", "assetsVersion", "events"} |->
        CASE k = "sharedProperty" -> [kind |-> "Always", value |-> "x"]
          [] k = "assetsVersion"  -> [kind |-> "Lazy",   value |-> "y"]
          [] k = "events"         -> [kind |-> "Data",   value |-> "y"]]}

\* The texts of x-inertia-partial-data and of x-inertia-partial-except
\* that the explored requests carry.
PartialDataTexts == {<<"events">>, <<"">>}

PartialExceptTexts == {<<"auth", "radioStatus">>}

PartialLists == PartialDataTexts \cup PartialExceptTexts

OptionOf(S) == {None} \cup {Some(x) : x \in S}

\* The header sets of the explored requests.  The requests of the
\* redirect handlers carry no partial header.
HeaderSets(route) ==
    {hs \in [RequestHeaderNames -> OptionOf({NonAscii} \cup
                {Text(p) : p \in PartialLists \cup
                    {Str(t) : t \in Versions \cup {"true", "Events"}}})] :
        /\ hs[X_INERTIA] \in OptionOf({Text(Str("")), Text(Str("true"))})
        /\ hs[X_INERTIA_VERSION] \in
              OptionOf({NonAscii} \cup {Text(Str(v)) : v \in Versions})
        /\ hs[X_INERTIA_PARTIAL_COMPONENT] \in
              (IF route.handler = "render"
               THEN OptionOf({NonAscii, Text(Str("Events"))})
               ELSE {None})
        /\ hs[X_INERTIA_PARTIAL_DATA] \in
              (IF route.handler = "render"
               THEN OptionOf({NonAscii} \cup
                             {Text(p) : p \in PartialDataTexts})
               ELSE {None})
        /\ hs[X_INERTIA_PARTIAL_EXCEPT] \in
              (IF route.handler = "render"
               THEN OptionOf({NonAscii} \cup
                             {Text(p) : p \in PartialExceptTexts})
               ELSE {None})}

HttpRequest(route, headers) ==
    [method |-> route.method, uri |-> route.uri, headers |-> headers,
     route |-> route]

\* The values of a slot that handles no request.
NoRequest ==
    HttpRequest(Route("GET", "/", "render", "Index", EmptyMap, OK,
                      "finish"),
                [h \in RequestHeaderNames |-> None])

NoExtensions == [session |-> None, shared |-> None]

NoLocals ==
    [mw_session |-> None, mw_inertia |-> None, page |-> None,
     ssr_page |-> None, result |-> None, forced |-> FALSE]

\* What has been called while handling a request that arrived with
\* `session` in its extensions: the thunks of the route props and of the
\* shared props, the SSR server, the template resolver (the ViewData it
\* was called with, the Result it returned), the reflash callback (its
\* arguments, whether it returned an Err), check_inertia_version (its
\* results).
NoTrace(props, session) ==
    [carried |-> session,
     route_calls |-> NoCalls(props), shared_calls |-> EmptyMap,
     ssr_calls |-> 0, resolver_calls |-> 0, resolver_args |-> None,
     resolver_result |-> None, reflash |-> <<>>,
     reflash_failed |-> FALSE, checks |-> <<>>]

\* What the SSR server answers when it renders.
SsrPage == [head |-> <<"<title>">>, body |-> "<div>"]

\* ------------------------------------------------------------------------
\* config.rs
\* ------------------------------------------------------------------------

\* The fields InertiaConfigBuilder::build requires, in the order it tests
\* them.
MandatoryFields ==
    <<"url", "template_path", "template_resolver", "template_resolver_data",
      "version">>

OptionalFields == {"custom_ssr_client", "view_data"}

\* The values the setters are called with: two per field.
FieldValues ==
    [f \in {MandatoryFields[i] : i \in DOMAIN MandatoryFields}
           \cup OptionalFields |->
        CASE f = "url"                    -> {"foo", "https://inertiajs.com"}
          [] f = "template_path"          -> {"path", "www/root.html"}
          [] f = "template_resolver"      -> {"mocked_resolver",
                                              "basic_vite_resolver"}
          [] f = "template_resolver_data" -> {"()", "vite"}
          [] f = "version"                -> InertiaVersions
          [] f = "custom_ssr_client"      -> {"127.0.0.1:1000",
                                              "127.0.0.1:13714"}
          [] f = "view_data"              -> {"{}", "{meta: 1}"}]

\* InertiaConfigBuilder::new
InertiaConfigBuilder_new ==
    [url |-> None, version |-> None, template_path |-> None,
     template_resolver |-> None, template_resolver_data |-> None,
     view_data |-> None, with_ssr |-> FALSE, custom_ssr_client |-> None]

set_ssr_client(self, ssr_client) ==
    [self EXCEPT !.custom_ssr_client = Some(ssr_client)]

set_url(self, url) == [self EXCEPT !.url = Some(url)]

set_version(self, version) == [self EXCEPT !.version = Some(version)]

set_template_path(self, template_path) ==
    [self EXCEPT !.template_path = Some(template_path)]

set_template_resolver(self, template_resolver) ==
    [self EXCEPT !.template_resolver = Some(template_resolver)]

set_template_resolver_data(self, data) ==
    [self EXCEPT !.template_resolver_data = Some(data)]

set_view_data(self, view_data) == [self EXCEPT !.view_data = Some(view_data)]

enable_ssr(self) == [self EXCEPT !.with_ssr = TRUE]

\* panic!("[InertiaConfigBuilder] '<field>' is a mandatory field ...")
Panicked(field) == [panicked |-> TRUE, field |-> field]

\* build returned the InertiaConfig.
Built(inertia_config) == [panicked |-> FALSE, value |-> inertia_config]

build_defaults_version(self) ==
    CASE self.url = None -> Panicked("url")
      [] self.template_path = None -> Panicked("template_path")
      [] self.template_resolver = None -> Panicked("template_resolver")
      [] self.template_resolver_data = None ->
            Panicked("template_resolver_data")
      [] OTHER ->
            Built([url |-> unwrap(self.url),
                   template_path |-> unwrap(self.template_path),
                   template_resolver |-> unwrap(self.template_resolver),
                   template_resolver_data |->
                       unwrap(self.template_resolver_data),
                   version |-> IF self.version = None THEN Literal("v1")
                               ELSE unwrap(self.version),
                   view_data |-> self.view_data,
                   with_ssr |-> self.with_ssr,
                   custom_ssr_client |-> self.custom_ssr_client])

\* InertiaConfigBuilder::build
build(self) ==
    CASE self.url = None -> Panicked("url")
      [] self.template_path = None -> Panicked("template_path")
      [] self.template_resolver = None -> Panicked("template_resolver")
      [] self.template_resolver_data = None ->
            Panicked("template_resolver_data")
      [] self.version = None -> Panicked("version")
      [] OTHER ->
            Built([url |-> unwrap(self.url),
                   template_path |-> unwrap(self.template_path),
                   template_resolver |-> unwrap(self.template_resolver),
                   template_resolver_data |->
                       unwrap(self.template_resolver_data),
                   version |-> unwrap(self.version),
                   view_data |-> self.view_data,
                   with_ssr |-> self.with_ssr,
                   custom_ssr_client |-> self.custom_ssr_client])

\* No setter has been called: for every field, the last value it was set
\* to, and whether enable_ssr has been called.
NoSetters ==
    [last |-> [f \in DOMAIN FieldValues |-> None], enable_ssr |-> FALSE]

\* ------------------------------------------------------------------------
\* node_process.rs
\* ------------------------------------------------------------------------

\* No renderer process has been started.  `child` is the Node.js process
\* ("none", "running", "exited", "killed"), `handle` the NodeJsProc value
\* ("none", "owned", "moved"), `kill` the future of NodeJsProc::kill
\* ("none", "sending", "returned", "dropped"), `requests` the HTTP requests
\* it has sent, `resp` the Result of its request (None, "Ok", "Err"),
\* `force_kills` the calls of force_kill.
NoNode ==
    [child |-> "none", handle |-> "none", server |-> <<>>, kill |-> "none",
     requests |-> <<>>, resp |-> None, force_kills |-> 0]

\* Url::to_string of an address without a path: the serialization of a
\* Url always has a path, "/" when none was given.
to_string(url) == <<url, "/">>

\* NodeJsProc::start: `path_exists` is whether the file at `server_path`
\* exists, `spawned` the Result of Command::spawn, the child or the text
\* of the io::Error.
start(server_path, path_exists, spawned, server_url) ==
    IF ~path_exists
    THEN Err(NodeJsError("Invalid path",
                <<"Server javascript file not found in ", server_path, ".">>))
    ELSE IF ~spawned.ok
    THEN Err(NodeJsError("Process error",
                <<"Something went wrong on invoking a node server: ",
                  spawned.error>>))
    ELSE Ok([NoNode EXCEPT !.child = "running", !.handle = "owned",
                           !.server = to_string(server_url)])

\* Inertia::start_node_server
start_node_server(self, server_file_path, path_exists, spawned) ==
    IF self.ssr_url = None
    THEN Err(to_io_error(InertiaError("SsrError",
                Str("Ssr is not enabled and, hence, a ssr server cannot be raised."))))
    ELSE LET started == start(server_file_path, path_exists, spawned,
                              unwrap(self.ssr_url))
         IN  IF started.ok THEN started
             ELSE Err(to_io_error(InertiaError("NodeJsError",
                                               started.error)))

\* NodeJsProc::kill(self), called and polled: the handle is moved into the
\* future, which sends GET format!("{}/shutdown", self.server) and awaits
\* the answer.
kill_sends(self) ==
    [self EXCEPT !.handle = "moved", !.kill = "sending",
                 !.requests = Append(@, self.server \o <<"/shutdown">>)]

\* NodeJsProc::kill(self), called and dropped before any poll: the handle
\* is moved into the future and dropped with it; nothing of the body of
\* kill has run, and dropping a Child leaves its process running.
kill_dropped(self) ==
    [self EXCEPT !.handle = "moved", !.kill = "dropped"]

\* NodeJsProc::force_kill: Child::kill ends the process if it still runs.
force_kill(self) ==
    [self EXCEPT !.child = IF @ = "running" THEN "killed" ELSE @,
                 !.force_kills = @ + 1]

kill_resumes_always_kills(self, resp) ==
    [force_kill([self EXCEPT !.resp = Some(resp)]) EXCEPT !.kill = "returned"]

\* NodeJsProc::kill after its await: force_kill when the request failed,
\* then Ok(()); an answered request leaves the child as it is.
kill_resumes(self, resp) ==
    LET answered == [self EXCEPT !.resp = Some(resp)]
    IN  [(IF resp = "Err" THEN force_kill(answered) ELSE answered)
            EXCEPT !.kill = "returned"]

\* No server program is running.  `pc` is where main stands, `awaits_kill`
\* whether the program awaits the future of NodeJsProc::kill or drops it,
\* `result` what main returns.
NoMain == [pc |-> "none", awaits_kill |-> FALSE, result |-> None]

\* No builder in hand, no renderer, no server program.
NoSetup ==
    /\ builder = None
    /\ config = None
    /\ setters = NoSetters
    /\ node = NoNode
    /\ main = NoMain

\* ------------------------------------------------------------------------
\* Handling a request
\* ------------------------------------------------------------------------

propVars == <<raw_props, req_type, resolved, classified>>

bootVars == <<inertia, app, builder, config, setters, node, main>>

slotVars == <<request, extensions, locals, pc, response, trace>>

vars ==
    <<raw_props, req_type, resolved, classified, inertia, app, storage, served,
      request, extensions, locals, pc, response, trace, builder, config,
      setters, node, main>>

\* Inertia::new and App::new: the instance and the application are built
\* once, before any request.  The shared props callback belongs to the
\* middleware: an application without it shares nothing.
Boot ==
    /\ \E version \in InertiaVersions :
       \E ssr_url \in OptionOf({"http://127.0.0.1:13714"}) :
          inertia = instantiate(TemplateOf(version).path, version,
                                TemplateOf(version).resolver, ssr_url)
    /\ app \in [data : BOOLEAN, middleware : BOOLEAN,
                shared_props : SharedPropsCallbacks]
    /\ ~app.middleware => app.shared_props = EmptyMap

Idle ==
    /\ storage = <<>>
    /\ served = 0
    /\ request = [s \in Slots |-> NoRequest]
    /\ extensions = [s \in Slots |-> NoExtensions]
    /\ locals = [s \in Slots |-> NoLocals]
    /\ pc = [s \in Slots |-> "idle"]
    /\ response = [s \in Slots |-> None]
    /\ trace = [s \in Slots |-> NoTrace(EmptyMap, None)]

\* A request arrives.  A middleware registered before InertiaMiddleware
\* may have put an InertiaTemporarySession in its extensions.
Receive(s) ==
    /\ pc[s] = "idle"
    /\ served < MaxRequests
    /\ \E route \in Routes :
       \E headers \in HeaderSets(route) :
       \E session \in OptionOf(InertiaTemporarySession) :
          /\ request' = [request EXCEPT ![s] = HttpRequest(route, headers)]
          /\ extensions' = [extensions EXCEPT
                               ![s] = [session |-> session, shared |-> None]]
          /\ trace' = [trace EXCEPT ![s] = NoTrace(route.props, session)]
    /\ locals' = [locals EXCEPT ![s] = NoLocals]
    /\ response' = [response EXCEPT ![s] = None]
    /\ pc' = [pc EXCEPT ![s] = IF app.middleware THEN "mw_call" ELSE "service"]
    /\ served' = served + 1
    /\ UNCHANGED <<propVars, bootVars, storage>>

MiddlewareCall_keeps_props_in_service(s) ==
    /\ pc[s] = "mw_call"
    /\ LET inertia_temporary_session == extensions[s].session
           shared_props == with_session_errors(app.shared_props,
                                               inertia_temporary_session)
       IN  /\ extensions' =
                 [x \in Slots |->
                     IF x = s
                     THEN [session |-> None, shared |-> Some(shared_props)]
                     ELSE [extensions[x] EXCEPT
                              !.shared = IF is_some(@) THEN Some(shared_props)
                                         ELSE @]]
           /\ locals' = [locals EXCEPT
                            ![s].mw_session = inertia_temporary_session,
                            ![s].mw_inertia =
                                IF app.data THEN Some(inertia) ELSE None]
           /\ trace' = [trace EXCEPT
                           ![s].shared_calls = NoCalls(shared_props)]
    /\ pc' = [pc EXCEPT ![s] = "mw_future"]
    /\ UNCHANGED <<propVars, bootVars, storage, served, request, response>>

\* InertiaMiddlewareService::call up to the boxed future: the shared props
\* are computed, the session is taken out of the extensions and its errors
\* shared, the inner service's future is created.
MiddlewareCall(s) ==
    /\ pc[s] = "mw_call"
    /\ LET inertia_temporary_session == extensions[s].session
           shared_props == with_session_errors(app.shared_props,
                                               inertia_temporary_session)
       IN  /\ extensions' = [extensions EXCEPT
                                ![s] = [session |-> None,
                                        shared |-> Some(shared_props)]]
           /\ locals' = [locals EXCEPT
                            ![s].mw_session = inertia_temporary_session,
                            ![s].mw_inertia =
                                IF app.data THEN Some(inertia) ELSE None]
           /\ trace' = [trace EXCEPT
                           ![s].shared_calls = NoCalls(shared_props)]
    /\ pc' = [pc EXCEPT ![s] = "mw_future"]
    /\ UNCHANGED <<propVars, bootVars, storage, served, request, response>>

\* The checks of check_inertia_version the middleware's future makes.
MiddlewareChecks(s) ==
    IF is_some(locals[s].mw_inertia)
    THEN <<check_inertia_version(request[s],
                                 unwrap(locals[s].mw_inertia).version)>>
    ELSE <<>>

\* The middleware's future, is_latest_version = false: the response is
\* Inertia::location, the session goes back into the extensions, the inner
\* service's future is dropped without having run.
MiddlewareForcesRefresh(s) ==
    /\ pc[s] = "mw_future"
    /\ ~is_latest_version(locals[s].mw_inertia, request[s])
    /\ response' = [response EXCEPT
                       ![s] = Some(location(request[s], request[s].uri))]
    /\ extensions' = [extensions EXCEPT
                         ![s].session = IF is_some(locals[s].mw_session)
                                        THEN locals[s].mw_session
                                        ELSE @]
    /\ locals' = [locals EXCEPT ![s].forced = TRUE]
    /\ trace' = [trace EXCEPT ![s].checks = @ \o MiddlewareChecks(s)]
    /\ pc' = [pc EXCEPT ![s] = "done"]
    /\ UNCHANGED <<propVars, bootVars, storage, served, request>>

\* The middleware's future, is_latest_version = true: it awaits the inner
\* service.
MiddlewareAwaitsService(s) ==
    /\ pc[s] = "mw_future"
    /\ is_latest_version(locals[s].mw_inertia, request[s])
    /\ trace' = [trace EXCEPT ![s].checks = @ \o MiddlewareChecks(s)]
    /\ pc' = [pc EXCEPT ![s] = "service"]
    /\ UNCHANGED <<propVars, bootVars, storage, served, request, extensions,
                   locals, response>>

\* The response that leaves the application for the inner service's
\* response `res`: the middleware, when there is one, rewrites its status.
Outgoing(s, res) ==
    IF app.middleware
    THEN [res EXCEPT !.status = rewritten_status(request[s].method, @)]
    ELSE res

\* What a handler that returns the Result of render_with_props answers
\* (inertia_route): the response of an Ok, the error_response of an Err.
Responded(result) ==
    IF result.ok THEN result.value ELSE error_response(result.error)

\* What a handler that matches on the Result answers (home and with_props
\* of the tests): the response of an Ok; an Err is logged and answered
\* with InternalServerError().finish(), a 500 without header or body.
Finished(result) ==
    IF result.ok THEN result.value
    ELSE HttpResponse(INTERNAL_SERVER_ERROR, EmptyMap, NoBody)

\* What the page handler of `route` answers for `result`.
HandlerResponse(route, result) ==
    IF route.on_err = "finish" THEN Finished(result) ELSE Responded(result)

\* A handler that answers with a redirect to "/".
RedirectHandler(s) ==
    /\ pc[s] = "service"
    /\ request[s].route.handler = "redirect"
    /\ response' = [response EXCEPT
                       ![s] = Some(Outgoing(s,
                                HttpResponse(request[s].route.status,
                                             (LOCATION :> "/"), NoBody)))]
    /\ pc' = [pc EXCEPT ![s] = "done"]
    /\ UNCHANGED <<propVars, bootVars, storage, served, request, extensions,
                   locals, trace>>

\* facade::render_with_props without an Inertia instance in the app data:
\* extract_inertia panics.
RenderPanics(s) ==
    /\ pc[s] = "service"
    /\ request[s].route.handler = "render"
    /\ ~app.data
    /\ pc' = [pc EXCEPT ![s] = "panicked"]
    /\ UNCHANGED <<propVars, bootVars, storage, served, request, extensions,
                   locals, response, trace>>

\* The user's reflash callback, called with `args` (no or one Option of a
\* session): when it succeeds it persists the session it was given, when
\* it fails it persists nothing.
Reflashed(args, succeeds) ==
    IF args # <<>> /\ succeeds /\ is_some(args[1])
    THEN Append(storage, unwrap(args[1]))
    ELSE storage

after_reflash_returns_error(result, succeeds) ==
    IF succeeds THEN result
    ELSE Some(Err(InertiaError("SsrError",
                               Str("The reflash callback failed."))))

\* check_and_handle_version_mismatch after the reflash callback returned:
\* an Err is logged, the Result of render_with_props is the same either way.
after_reflash(result, succeeds) == result

\* render_with_props, impls.rs 97-107: the ViewData is built of the page,
\* the SSR page and the custom view data, and the template resolver is
\* called with it; `called` is the trace of the request.
ResolverCalled(called, page, ssr_page) ==
    [called EXCEPT
        !.resolver_calls = @ + 1,
        !.resolver_args =
            Some(ViewData(page, ssr_page, inertia.custom_view_data))]

\* A page handler: facade::render_with_props, then
\* Inertia::render_with_props up to its return or its first await: the
\* await of request_page_render when SSR is enabled, else the await of
\* the template resolver it has called.
RenderHandler(s) ==
    /\ pc[s] = "service"
    /\ request[s].route.handler = "render"
    /\ app.data
    /\ LET step == render_with_props(inertia, request[s], extensions[s],
                                     request[s].route.component,
                                     request[s].route.props)
       IN  /\ extensions' = [extensions EXCEPT ![s] = step.ext]
           /\ \E succeeds \in (IF step.reflash = <<>> THEN {TRUE} ELSE BOOLEAN) :
              LET result == after_reflash(step.result, succeeds)
                  made == [trace[s] EXCEPT
                        !.route_calls = step.route_calls,
                        !.shared_calls = step.shared_calls,
                        !.reflash = @ \o step.reflash,
                        !.reflash_failed = ~succeeds,
                        !.checks = @ \o step.checks,
                        !.ssr_calls =
                            IF step.next = "ssr" THEN @ + 1 ELSE @]
              IN  /\ storage' = Reflashed(step.reflash, succeeds)
                  /\ trace' = [trace EXCEPT
                        ![s] = IF step.next = "template"
                               THEN ResolverCalled(made, unwrap(step.page),
                                                   None)
                               ELSE made]
                  /\ locals' = [locals EXCEPT
                        ![s].page = step.page,
                        ![s].result = result,
                        ![s].forced = step.forced]
                  /\ response' = [response EXCEPT
                        ![s] = IF step.next = "return"
                               THEN Some(Outgoing(s,
                                        HandlerResponse(request[s].route,
                                                        unwrap(result))))
                               ELSE None]
           /\ pc' = [pc EXCEPT
                 ![s] = IF step.next = "return" THEN "done" ELSE step.next]
    /\ UNCHANGED <<propVars, bootVars, served, request>>

\* request_page_render returns Ok: the SSR server rendered the page, and
\* render_with_props calls the template resolver with the page and the
\* SSR page.
SsrRenders(s) ==
    /\ pc[s] = "ssr"
    /\ locals' = [locals EXCEPT ![s].ssr_page = Some(SsrPage)]
    /\ trace' = [trace EXCEPT
                    ![s] = ResolverCalled(@, unwrap(locals[s].page),
                                          Some(SsrPage))]
    /\ pc' = [pc EXCEPT ![s] = "template"]
    /\ UNCHANGED <<propVars, bootVars, storage, served, request, extensions,
                   response>>

\* The error of request_page_render for a request whose send() failed
\* with the reqwest error `err`.
SsrFailure(err) ==
    InertiaError("SsrError",
                 <<"Failed to render the page at the SSR Server: ", err>>)

\* The reqwest error of a send() to the render endpoint that failed.
SendErrors ==
    {"error sending request for url (http://127.0.0.1:13714/render)"}

SsrFails_retries(s) ==
    /\ pc[s] = "ssr"
    /\ trace' = [trace EXCEPT
                    ![s] = IF @.ssr_calls < 2
                           THEN [@ EXCEPT !.ssr_calls = @ + 1]
                           ELSE ResolverCalled(@, unwrap(locals[s].page),
                                               None)]
    /\ pc' = [pc EXCEPT
                 ![s] = IF trace[s].ssr_calls < 2 THEN "ssr" ELSE "template"]
    /\ UNCHANGED <<propVars, bootVars, storage, served, request, extensions,
                   locals, response>>

SsrFails_returns_error(s) ==
    /\ pc[s] = "ssr"
    /\ \E err \in SendErrors :
          /\ locals' = [locals EXCEPT ![s].result = Some(Err(SsrFailure(err)))]
          /\ response' = [response EXCEPT
                             ![s] = Some(Outgoing(s,
                                      HandlerResponse(request[s].route,
                                                      Err(SsrFailure(err)))))]
    /\ pc' = [pc EXCEPT ![s] = "done"]
    /\ UNCHANGED <<propVars, bootVars, storage, served, request, extensions,
                   trace>>

\* request_page_render returns Err (no connection, timeout, bad body): the
\* error is logged, ssr_page stays None and render_with_props calls the
\* template resolver with the page and no SSR page.
SsrFails(s) ==
    /\ pc[s] = "ssr"
    /\ trace' = [trace EXCEPT
                    ![s] = ResolverCalled(@, unwrap(locals[s].page), None)]
    /\ pc' = [pc EXCEPT ![s] = "template"]
    /\ UNCHANGED <<propVars, bootVars, storage, served, request, extensions,
                   locals, response>>

\* The Results of tokio::fs::read of the root layout: the io::Error of a
\* path that is no file or is a directory, or the bytes, which are UTF-8
\* or not (`error` is the FromUtf8Error of a file holding the byte 0xFF).
LayoutFiles ==
    {Err("No such file or directory (os error 2)"),
     Err("Is a directory (os error 21)"),
     Ok([utf8 |-> TRUE, error |-> ""]),
     Ok([utf8 |-> FALSE,
         error |-> "FromUtf8Error { bytes: [255], error: Utf8Error { valid_up_to: 0, error_len: Some(1) } }"])}

\* The Results of serde_json::to_string(&view_data.page).
StringifiedPages == {Ok("json"), Err("serde_json::Error")}

\* features/template_resolvers/basic_vite_resolver.rs, template_resolver:
\* `file` is the Result of tokio::fs::read(template_path),
\* `stringified_page` that of serde_json::to_string(&view_data.page).
basic_vite_resolver(template_path, view_data, file, stringified_page) ==
    IF ~file.ok
    THEN Err(InertiaError("RenderError",
                <<"Failed to open root layout at ", template_path, ": ",
                  file.error>>))
    ELSE IF ~file.value.utf8
    THEN Err(InertiaError("RenderError",
                <<"Failed to read file contents: ", file.value.error>>))
    ELSE IF view_data.ssr_page = None /\ ~stringified_page.ok
    THEN Err(InertiaError("SerializationError",
                <<"Failed to serialize view_data.page: ", view_data.page>>))
    ELSE Ok(HtmlBody(view_data))

\* tests/common/template_resolver.rs, _mocked_resolver: the same steps, a
\* file that cannot be read being an SsrError.
mocked_resolver(template_path, view_data, file, stringified_page) ==
    IF ~file.ok
    THEN Err(InertiaError("SsrError",
                <<"Failed to open root layout at ", template_path, ": ",
                  file.error>>))
    ELSE IF ~file.value.utf8
    THEN Err(InertiaError("SsrError",
                <<"Failed to read file contents: ", file.value.error>>))
    ELSE IF view_data.ssr_page = None /\ ~stringified_page.ok
    THEN Err(InertiaError("SerializationError",
                <<"Failed to serialize view_data.page: ", view_data.page>>))
    ELSE Ok(HtmlBody(view_data))

\* (self.template_resolver)(self.template_path, view_data, ..), awaited.
call_template_resolver(self, view_data, file, stringified_page) ==
    IF self.template_resolver = "mocked_resolver"
    THEN mocked_resolver(self.template_path, view_data, file,
                         stringified_page)
    ELSE basic_vite_resolver(self.template_path, view_data, file,
                             stringified_page)

\* What the template resolver of the instance can return for `view_data`.
ResolverResults(view_data) ==
    {call_template_resolver(inertia, view_data, file, stringified_page) :
        file \in LayoutFiles, stringified_page \in StringifiedPages}

\* The view data render_with_props handed to the template resolver.
ViewDataOf(s) == unwrap(trace[s].resolver_args)

\* The template resolver returns the html: render_with_props returns the
\* html response.
TemplateRenders(s) ==
    /\ pc[s] = "template"
    /\ \E html \in ResolverResults(ViewDataOf(s)) :
          /\ html.ok
          /\ trace' = [trace EXCEPT ![s].resolver_result = Some(html)]
    /\ locals' = [locals EXCEPT
                     ![s].result = Some(Ok(html_response(ViewDataOf(s))))]
    /\ response' = [response EXCEPT
                       ![s] = Some(Outgoing(s, html_response(ViewDataOf(s))))]
    /\ pc' = [pc EXCEPT ![s] = "done"]
    /\ UNCHANGED <<propVars, bootVars, storage, served, request, extensions>>

TemplateFails_masks_error(s) ==
    /\ pc[s] = "template"
    /\ \E html \in ResolverResults(ViewDataOf(s)) :
          /\ ~html.ok
          /\ trace' = [trace EXCEPT ![s].resolver_result = Some(html)]
          /\ locals' = [locals EXCEPT ![s].result = Some(html)]
    /\ response' = [response EXCEPT
                       ![s] = Some(Outgoing(s, html_response(ViewDataOf(s))))]
    /\ pc' = [pc EXCEPT ![s] = "done"]
    /\ UNCHANGED <<propVars, bootVars, storage, served, request, extensions>>

\* The template resolver returns an error: render_with_props returns it.
TemplateFails(s) ==
    /\ pc[s] = "template"
    /\ \E html \in ResolverResults(ViewDataOf(s)) :
          /\ ~html.ok
          /\ trace' = [trace EXCEPT ![s].resolver_result = Some(html)]
          /\ locals' = [locals EXCEPT ![s].result = Some(html)]
          /\ response' = [response EXCEPT
                             ![s] = Some(Outgoing(s,
                                      HandlerResponse(request[s].route,
                                                      html)))]
    /\ pc' = [pc EXCEPT ![s] = "done"]
    /\ UNCHANGED <<propVars, bootVars, storage, served, request, extensions>>

\* The request is over; its slot is free again.
Finish(s) ==
    /\ pc[s] \in {"done", "panicked"}
    /\ request' = [request EXCEPT ![s] = NoRequest]
    /\ extensions' = [extensions EXCEPT ![s] = NoExtensions]
    /\ locals' = [locals EXCEPT ![s] = NoLocals]
    /\ response' = [response EXCEPT ![s] = None]
    /\ trace' = [trace EXCEPT ![s] = NoTrace(EmptyMap, None)]
    /\ pc' = [pc EXCEPT ![s] = "idle"]
    /\ UNCHANGED <<propVars, bootVars, storage, served>>

\* get_request_type has not been called on its own.
NotClassified == [called |-> FALSE]

Init ==
    /\ raw_props = EmptyMap
    /\ req_type = Standard
    /\ resolved = [called |-> FALSE]
    /\ classified = NotClassified
    /\ Boot
    /\ Idle
    /\ NoSetup

Next ==
    \E s \in SeqSlots :
        \/ Receive(s)
        \/ MiddlewareCall(s)
        \/ MiddlewareForcesRefresh(s)
        \/ MiddlewareAwaitsService(s)
        \/ RedirectHandler(s)
        \/ RenderPanics(s)
        \/ RenderHandler(s)
        \/ SsrRenders(s)
        \/ SsrFails(s)
        \/ TemplateRenders(s)
        \/ TemplateFails(s)
        \/ Finish(s)

\* Requests handled one after the other.
Spec == Init /\ [][Next]_vars

\* Requests handled one after the other, each call of request_page_render
\* returning within its timeout.
SpecFair ==
    /\ Init
    /\ [][Next]_vars
    /\ \A s \in SeqSlots : WF_vars(SsrRenders(s) \/ SsrFails(s))

\* ------------------------------------------------------------------------
\* The resolver on its own
\* ------------------------------------------------------------------------

NotCalled == [called |-> FALSE]

InitProps ==
    /\ raw_props \in InertiaProps
    /\ req_type \in RequestTypes
    /\ resolved = NotCalled
    /\ classified = NotClassified
    /\ inertia = instantiate(TemplateOf(Literal("v1")).path, Literal("v1"),
                             TemplateOf(Literal("v1")).resolver, None)
    /\ app = [data |-> TRUE, middleware |-> FALSE, shared_props |-> EmptyMap]
    /\ Idle
    /\ NoSetup

\* One call of InertiaProp::resolve_props(&raw_props, req_type).
ResolveProps ==
    /\ resolved = NotCalled
    /\ resolved' = [called |-> TRUE,
                    props  |-> resolve_props(raw_props, req_type).props,
                    calls  |-> resolve_props(raw_props, req_type).calls]
    /\ UNCHANGED <<raw_props, req_type, classified, bootVars, storage, served,
                   slotVars>>

NextProps == ResolveProps

\* Every table and every request type handed to resolve_props.
SpecProps == InitProps /\ [][NextProps]_vars

\* ------------------------------------------------------------------------
\* The classifier on its own
\* ------------------------------------------------------------------------

\* The items between the commas of a partial header: a prop name, with and
\* without a blank before it, and the empty item.
HeaderItems == {"events", " events", ""}

\* The texts of a partial header: one item or more, separated by commas.
\* The empty text is the single empty item.
PartialTexts == SeqUpTo(HeaderItems, MaxNames) \ {<<>>}

PartialHeaderValues == OptionOf({NonAscii} \cup {Text(p) : p \in PartialTexts})

\* The header sets handed to get_request_type.
ClassifiedHeaderSets ==
    {[h \in RequestHeaderNames |->
        CASE h = X_INERTIA                   -> hydrated
          [] h = X_INERTIA_VERSION           -> None
          [] h = X_INERTIA_PARTIAL_COMPONENT -> partial_comp
          [] h = X_INERTIA_PARTIAL_DATA      -> partial_data
          [] h = X_INERTIA_PARTIAL_EXCEPT    -> partial_except] :
        hydrated \in OptionOf({Text(Str("")), Text(Str("true"))}),
        partial_comp \in OptionOf({NonAscii, Text(Str("")),
                                   Text(Str("Events")), Text(Str("Index"))}),
        partial_data \in PartialHeaderValues,
        partial_except \in PartialHeaderValues}

InitClassify ==
    /\ raw_props = EmptyMap
    /\ req_type = Standard
    /\ resolved = NotCalled
    /\ classified = NotClassified
    /\ inertia = instantiate(TemplateOf(Literal("v1")).path, Literal("v1"),
                             TemplateOf(Literal("v1")).resolver, None)
    /\ app = [data |-> TRUE, middleware |-> FALSE, shared_props |-> EmptyMap]
    /\ storage = <<>>
    /\ served = 0
    /\ \E hs \in ClassifiedHeaderSets :
          request = [s \in Slots |->
                        IF s = 1
                        THEN HttpRequest(Route("GET", "/events", "render",
                                               "Events", EventsProps, OK,
                                               "return"), hs)
                        ELSE NoRequest]
    /\ extensions = [s \in Slots |-> NoExtensions]
    /\ locals = [s \in Slots |-> NoLocals]
    /\ pc = [s \in Slots |-> "idle"]
    /\ response = [s \in Slots |-> None]
    /\ trace = [s \in Slots |-> NoTrace(EmptyMap, None)]
    /\ NoSetup

\* One call of request.get_request_type().
Classify ==
    /\ classified = NotClassified
    /\ classified' = [called |-> TRUE, result |-> get_request_type(request[1])]
    /\ UNCHANGED <<raw_props, req_type, resolved, bootVars, storage, served,
                   slotVars>>

NextClassify == Classify

\* Every header set handed to get_request_type.
SpecClassify == InitClassify /\ [][NextClassify]_vars

\* ------------------------------------------------------------------------
\* Properties of the resolver (checked under SpecProps)
\* ------------------------------------------------------------------------

\* The names listed in a Vec<String>.
Listed(vec) == {vec[i] : i \in DOMAIN vec}

KeysOfKind(table, kinds) == {k \in DOMAIN table : table[k].kind \in kinds}

\* C1: on a Standard request the resolved map holds no Demand entry and
\* holds every Always, Data and Lazy entry.
C1_StandardSkipsOnlyDemand ==
    (resolved.called /\ is_standard(req_type)) =>
        /\ KeysOfKind(raw_props, {"Demand"}) \cap DOMAIN resolved.props = {}
        /\ KeysOfKind(raw_props, {"Always", "Data", "Lazy"})
              \subseteq DOMAIN resolved.props

C1_Witness ==
    /\ resolved.called
    /\ is_standard(req_type)
    /\ KeysOfKind(raw_props, {"Demand"}) # {}
    /\ KeysOfKind(raw_props, {"Lazy"}) # {}
    /\ KeysOfKind(raw_props, {"Data", "Always"}) # {}

\* C2: whatever the request type and whatever only and except list, every
\* Always entry is in the resolved map with its stored value.
C2_AlwaysIsAlwaysResolved ==
    resolved.called =>
        \A k \in KeysOfKind(raw_props, {"Always"}) :
            /\ k \in DOMAIN resolved.props
            /\ resolved.props[k] = raw_props[k].value

C2_Witness ==
    /\ resolved.called
    /\ ~is_standard(req_type)
    /\ \E k \in KeysOfKind(raw_props, {"Always"}) :
          /\ k \in Listed(req_type.partials.except)
          /\ req_type.partials.only # <<>>
          /\ k \notin Listed(req_type.partials.only)
          /\ k \in DOMAIN resolved.props

\* C3: on a partial reload a Data, Lazy or Demand entry k is resolved iff
\* (only is non-empty and lists k) or (only is empty and except does not
\* list k).
C3_PartialFilter ==
    (resolved.called /\ ~is_standard(req_type)) =>
        \A k \in KeysOfKind(raw_props, {"Data", "Lazy", "Demand"}) :
            k \in DOMAIN resolved.props <=>
                \/ /\ req_type.partials.only # <<>>
                   /\ k \in Listed(req_type.partials.only)
                \/ /\ req_type.partials.only = <<>>
                   /\ k \notin Listed(req_type.partials.except)

C3_Witness ==
    /\ resolved.called
    /\ ~is_standard(req_type)
    /\ req_type.partials.only # <<>>
    /\ \E k, j \in KeysOfKind(raw_props, {"Data", "Lazy", "Demand"}) :
          /\ k \in Listed(req_type.partials.only)
          /\ k \in Listed(req_type.partials.except)
          /\ k \in DOMAIN resolved.props
          /\ j \notin Listed(req_type.partials.only)
          /\ j \notin Listed(req_type.partials.except)
          /\ j \notin DOMAIN resolved.props

\* C4: during one call the thunk of a Lazy or Demand entry runs once if
\* its key is in the returned map and not at all otherwise.
C4_ThunkRunsIffResolved ==
    resolved.called =>
        \A k \in KeysOfKind(raw_props, {"Lazy", "Demand"}) :
            resolved.calls[k] = IF k \in DOMAIN resolved.props THEN 1 ELSE 0

C4_Witness ==
    /\ resolved.called
    /\ ~is_standard(req_type)
    /\ \E k, j \in KeysOfKind(raw_props, {"Lazy", "Demand"}) :
          /\ k \in DOMAIN resolved.props
          /\ resolved.calls[k] = 1
          /\ j \notin DOMAIN resolved.props
          /\ resolved.calls[j] = 0

\* The scenario of C5: {auth: Always, categories: Data, events: Data} and
\* PartialReload{component: "Events", only: ["events"], except: []}.
C5_Scenario ==
    /\ resolved.called
    /\ DOMAIN raw_props = {"auth", "categories", "events"}
    /\ raw_props["auth"].kind = "Always"
    /\ raw_props["categories"].kind = "Data"
    /\ raw_props["events"].kind = "Data"
    /\ req_type = Partial(PartialComponent(Str("Events"), <<"events">>, <<>>))

\* C5 as stated: in the scenario the resolved map has the single key
\* events.
C5_OnlyEventsAsStated ==
    C5_Scenario => DOMAIN resolved.props = {"events"}

\* C5 amended: in the scenario the resolved map has exactly the keys events
\* and auth, each with its stored value; only categories is dropped.
C5_EventsAndAuth ==
    C5_Scenario =>
        /\ DOMAIN resolved.props = {"events", "auth"}
        /\ resolved.props["events"] = raw_props["events"].value
        /\ resolved.props["auth"] = raw_props["auth"].value

C5_Witness ==
    /\ C5_Scenario
    /\ "categories" \notin DOMAIN resolved.props

\* ------------------------------------------------------------------------
\* Properties of request handling (checked under Spec)
\* ------------------------------------------------------------------------

VersionHeader(s) == request[s].headers[X_INERTIA_VERSION]

\* The request carries a non-empty x-inertia header.
Hydrated(s) ==
    \E v \in request[s].headers[X_INERTIA] : v # Text(Str(""))

\* The request carries a version header whose value is not the server's
\* version.
Stale(s) ==
    /\ VersionHeader(s) # None
    /\ VersionHeader(s) # Some(Text(Str(inertia.version)))

\* The request names a partial component and one of its partial headers
\* cannot be decoded.
Unclassifiable(s) ==
    /\ request[s].headers[X_INERTIA_PARTIAL_COMPONENT] # None
    /\ \E h \in {X_INERTIA_PARTIAL_COMPONENT, X_INERTIA_PARTIAL_DATA,
                 X_INERTIA_PARTIAL_EXCEPT} :
          \E v \in request[s].headers[h] : ~v.ascii

\* The request has been answered by a page handler of an application that
\* holds the Inertia instance.
PageAnswered(s) ==
    /\ pc[s] = "done"
    /\ request[s].route.handler = "render"
    /\ app.data

StatusOf(s) == unwrap(response[s]).status

HeadersOf(s) == unwrap(response[s]).headers

\* C6: every call of check_inertia_version answers true exactly when the
\* request has no x-inertia-version header or its value is the server's
\* version.
C6_FreshIffAbsentOrEqual ==
    \A s \in Slots : \A i \in DOMAIN trace[s].checks :
        trace[s].checks[i] <=>
            \/ VersionHeader(s) = None
            \/ VersionHeader(s) = Some(Text(Str(inertia.version)))

C6_Witness ==
    \E s \in Slots :
        /\ trace[s].checks = <<FALSE>>
        /\ \E v \in Versions \ {inertia.version} :
              VersionHeader(s) = Some(Text(Str(v)))

\* C7 as stated: every hydrated stale request is answered 409 with
\* x-inertia-location = its url; every hydrated request without version
\* header is answered 200 without x-inertia-location.
C7_HydratedAsStated ==
    \A s \in Slots :
        (PageAnswered(s) /\ Hydrated(s)) =>
            /\ Stale(s) =>
                  /\ StatusOf(s) = CONFLICT
                  /\ X_INERTIA_LOCATION \in DOMAIN HeadersOf(s)
                  /\ HeadersOf(s)[X_INERTIA_LOCATION] = request[s].uri
            /\ VersionHeader(s) = None =>
                  /\ StatusOf(s) = OK
                  /\ X_INERTIA_LOCATION \notin DOMAIN HeadersOf(s)

\* C7 amended: the same, for the requests whose classification succeeds.
C7_HydratedClassified ==
    \A s \in Slots :
        (PageAnswered(s) /\ Hydrated(s) /\ ~Unclassifiable(s)) =>
            /\ Stale(s) =>
                  /\ StatusOf(s) = CONFLICT
                  /\ X_INERTIA_LOCATION \in DOMAIN HeadersOf(s)
                  /\ HeadersOf(s)[X_INERTIA_LOCATION] = request[s].uri
            /\ VersionHeader(s) = None =>
                  /\ StatusOf(s) = OK
                  /\ X_INERTIA_LOCATION \notin DOMAIN HeadersOf(s)

C7_Witness ==
    \E s \in Slots :
        /\ PageAnswered(s) /\ Hydrated(s) /\ ~Unclassifiable(s)
        /\ Stale(s)
        /\ request[s].uri = "/events"
        /\ StatusOf(s) = CONFLICT
        /\ HeadersOf(s)[X_INERTIA_LOCATION] = "/events"

\* C8 as stated: every stale request that is not hydrated is answered 302
\* with Location = its url and no page, with and without the middleware.
C8_PlainStaleIsRedirected ==
    \A s \in Slots :
        (PageAnswered(s) /\ ~Hydrated(s) /\ Stale(s) /\ ~Unclassifiable(s)) =>
            /\ StatusOf(s) = FOUND
            /\ LOCATION \in DOMAIN HeadersOf(s)
            /\ HeadersOf(s)[LOCATION] = request[s].uri
            /\ unwrap(response[s]).body = NoBody

\* C9: when a request ends in a forced refresh no thunk of a route prop or
\* of a shared prop has run, the SSR server has not been called and the
\* template resolver has not been called.
C9_ForcedRefreshResolvesNothing ==
    \A s \in Slots :
        locals[s].forced =>
            /\ \A k \in DOMAIN trace[s].route_calls :
                  trace[s].route_calls[k] = 0
            /\ \A k \in DOMAIN trace[s].shared_calls :
                  trace[s].shared_calls[k] = 0
            /\ trace[s].ssr_calls = 0
            /\ trace[s].resolver_calls = 0

C9_Witness ==
    \E s \in Slots :
        /\ pc[s] = "done"
        /\ locals[s].forced
        /\ ~app.middleware
        /\ StatusOf(s) = CONFLICT
        /\ \E k \in DOMAIN request[s].route.props :
              /\ request[s].route.props[k].kind = "Lazy"
              /\ trace[s].route_calls[k] = 0

\* C10 as stated: a hydrated stale request that carries a temporary
\* session is answered 409 and the reflash callback has been called with
\* that session, with and without the middleware.
C10_SessionIsReflashed ==
    \A s \in Slots :
        (/\ PageAnswered(s) /\ Hydrated(s) /\ Stale(s) /\ ~Unclassifiable(s)
         /\ is_some(trace[s].carried)) =>
            /\ StatusOf(s) = CONFLICT
            /\ trace[s].reflash = <<trace[s].carried>>

\* C11: when the reflash callback returned an Err the request still ends
\* with the forced refresh, 409 with x-inertia-location = its url, and the
\* Result of render_with_props is Ok, not the callback's error.
C11_ReflashErrorIsNotTheResult ==
    \A s \in Slots :
        trace[s].reflash_failed =>
            /\ pc[s] = "done"
            /\ locals[s].forced
            /\ unwrap(locals[s].result).ok
            /\ StatusOf(s) = CONFLICT
            /\ X_INERTIA_LOCATION \in DOMAIN HeadersOf(s)
            /\ HeadersOf(s)[X_INERTIA_LOCATION] = request[s].uri

C11_Witness ==
    \E s \in Slots :
        /\ trace[s].reflash_failed
        /\ is_some(trace[s].carried)
        /\ trace[s].reflash = <<trace[s].carried>>
        /\ storage = <<>>
        /\ StatusOf(s) = CONFLICT

\* ------------------------------------------------------------------------
\* Properties of the classifier (checked under SpecClassify)
\* ------------------------------------------------------------------------

\* The header `h` of the classified request.
HeaderOf(h) == request[1].headers[h]

\* The header `h` is absent or its value decodes as visible ASCII text.
Decodable(h) == \A v \in HeaderOf(h) : to_str_ok(v)

PartialHeaders ==
    {X_INERTIA_PARTIAL_COMPONENT, X_INERTIA_PARTIAL_DATA,
     X_INERTIA_PARTIAL_EXCEPT}

\* An item without its surrounding blanks.
Trim(item) == IF item = " events" THEN "events" ELSE item

\* The items of header `h` as the specification states them: split at the
\* commas, trimmed, the empty ones discarded; none for an absent header.
TrimmedItems(h) ==
    IF HeaderOf(h) = None \/ ~Decodable(h) THEN {}
    ELSE {Trim(i) : i \in Listed(to_str(unwrap(HeaderOf(h))))} \ {""}

\* The request was classified as a partial reload.
ClassifiedPartial ==
    /\ classified.called
    /\ classified.result.ok
    /\ ~is_standard(classified.result.value)

\* C12 as stated: on a partial reload only and except are the items of
\* x-inertia-partial-data and x-inertia-partial-except, trimmed and without
\* the empty ones; an absent or empty header gives the empty set.
C12_ItemsTrimmedAndNonEmpty ==
    ClassifiedPartial =>
        /\ Listed(classified.result.value.partials.only)
              = TrimmedItems(X_INERTIA_PARTIAL_DATA)
        /\ Listed(classified.result.value.partials.except)
              = TrimmedItems(X_INERTIA_PARTIAL_EXCEPT)

\* C13 as stated: the result is Standard iff there is no partial-component
\* header; a present, decodable one gives a partial reload of that
\* component whatever the other headers are.
C13_ComponentDecidesAsStated ==
    classified.called =>
        /\ (classified.result.ok /\ is_standard(classified.result.value))
              <=> HeaderOf(X_INERTIA_PARTIAL_COMPONENT) = None
        /\ (/\ HeaderOf(X_INERTIA_PARTIAL_COMPONENT) # None
            /\ Decodable(X_INERTIA_PARTIAL_COMPONENT)) =>
              /\ ClassifiedPartial
              /\ classified.result.value.partials.component
                    = to_str(unwrap(HeaderOf(X_INERTIA_PARTIAL_COMPONENT)))

\* C13 amended: the same, for a partial-component header present and all
\* three partial headers decodable; the x-inertia header plays no part.
C13_ComponentDecidesWhenDecodable ==
    classified.called =>
        /\ (classified.result.ok /\ is_standard(classified.result.value))
              <=> HeaderOf(X_INERTIA_PARTIAL_COMPONENT) = None
        /\ (/\ HeaderOf(X_INERTIA_PARTIAL_COMPONENT) # None
            /\ \A h \in PartialHeaders : Decodable(h)) =>
              /\ ClassifiedPartial
              /\ classified.result.value.partials.component
                    = to_str(unwrap(HeaderOf(X_INERTIA_PARTIAL_COMPONENT)))

C13_Witness ==
    /\ ClassifiedPartial
    /\ HeaderOf(X_INERTIA) = None
    /\ HeaderOf(X_INERTIA_PARTIAL_DATA) = None
    /\ HeaderOf(X_INERTIA_PARTIAL_EXCEPT) = None
    /\ classified.result.value.partials.component = Str("Index")

\* C14 as stated: classification fails, with HeaderError, exactly when one
\* of the three partial headers has an undecodable value.
C14_HeaderErrorIffUndecodable ==
    classified.called =>
        IF \E h \in PartialHeaders : ~Decodable(h)
        THEN /\ ~classified.result.ok
             /\ classified.result.error.kind = "HeaderError"
        ELSE classified.result.ok

\* ------------------------------------------------------------------------
\* Properties of request handling, continued (checked under Spec)
\* ------------------------------------------------------------------------

\* render_with_props returned the error of get_request_type.
ClassificationFailed(s) ==
    /\ pc[s] = "done"
    /\ is_some(locals[s].result)
    /\ ~unwrap(locals[s].result).ok
    /\ unwrap(locals[s].result).error.kind
          \in {"HeaderError", "SerializationError"}

\* No thunk of a route prop or of a shared prop has run for the request.
NothingResolved(s) ==
    /\ \A k \in DOMAIN trace[s].route_calls : trace[s].route_calls[k] = 0
    /\ \A k \in DOMAIN trace[s].shared_calls : trace[s].shared_calls[k] = 0

\* C15 as stated: a request whose classification fails is answered with a
\* 4xx status, never a 5xx one, and no prop is resolved for it.
C15_ClassificationFailureIsClientError ==
    \A s \in Slots :
        ClassificationFailed(s) =>
            /\ StatusOf(s) >= 400
            /\ StatusOf(s) < 500
            /\ NothingResolved(s)

\* The page render_with_props builds for the request: its component, its
\* url, the server's version, the resolved route props extended with the
\* resolved shared props.
PageOf(s) ==
    LET rt == get_request_type(request[s]).value
    IN  InertiaPage(request[s].route.component, request[s].uri,
                    Some(inertia.version),
                    Extend(resolve_props(request[s].route.props, rt).props,
                           resolve_props(SharedTable(extensions[s]), rt).props))

\* The response is 200 with x-inertia: true and the JSON of the page, and
\* neither the SSR server nor the template resolver has been called.
JsonAnswered(s) ==
    /\ StatusOf(s) = OK
    /\ X_INERTIA \in DOMAIN HeadersOf(s)
    /\ HeadersOf(s)[X_INERTIA] = "true"
    /\ unwrap(response[s]).body = JsonBody(PageOf(s))
    /\ trace[s].ssr_calls = 0
    /\ trace[s].resolver_calls = 0

\* C16 as stated: every hydrated request with a fresh version is answered
\* 200 with x-inertia: true and the JSON of its page, without SSR call and
\* without template resolver call.
C16_HydratedFreshAsStated ==
    \A s \in Slots :
        (PageAnswered(s) /\ Hydrated(s) /\ ~Stale(s)) => JsonAnswered(s)

\* C16 amended: the same, for the requests whose classification succeeds.
C16_HydratedFreshClassified ==
    \A s \in Slots :
        (PageAnswered(s) /\ Hydrated(s) /\ ~Stale(s) /\ ~Unclassifiable(s))
            => JsonAnswered(s)

C16_Witness ==
    \E s \in Slots :
        /\ PageAnswered(s) /\ Hydrated(s) /\ ~Unclassifiable(s)
        /\ VersionHeader(s) = Some(Text(Str(inertia.version)))
        /\ is_some(inertia.ssr_url)
        /\ request[s].headers[X_INERTIA_PARTIAL_COMPONENT] # None
        /\ JsonAnswered(s)
        /\ "events" \in DOMAIN PageOf(s).props
        /\ "sharedProperty" \in DOMAIN PageOf(s).props

\* request_page_render has been called for the request and returned Err.
SsrFailed(s) ==
    /\ trace[s].ssr_calls > 0
    /\ pc[s] # "ssr"
    /\ locals[s].ssr_page = None

\* C17: once the SSR call of a request has failed, the template resolver
\* has been called, once, with the page and no SSR result, and the request
\* waits for it or is over; when over, the Result of render_with_props is
\* what the resolver returned, never the error of the SSR call, and the
\* response is 200 with the resolver's html when the resolver succeeded.
C17_SsrFailureFallsBack ==
    \A s \in Slots :
        SsrFailed(s) =>
            /\ ~Hydrated(s)
            /\ locals[s].page = Some(PageOf(s))
            /\ pc[s] \in {"template", "done"}
            /\ trace[s].resolver_calls = 1
            /\ trace[s].resolver_args
                  = Some(ViewData(PageOf(s), None, inertia.custom_view_data))
            /\ pc[s] = "template" =>
                  /\ response[s] = None
                  /\ trace[s].resolver_result = None
            /\ pc[s] = "done" =>
                  /\ is_some(trace[s].resolver_result)
                  /\ \A err \in SendErrors :
                        unwrap(locals[s].result) # Err(SsrFailure(err))
                  /\ unwrap(locals[s].result).ok
                        = unwrap(trace[s].resolver_result).ok
                  /\ ~unwrap(locals[s].result).ok =>
                        locals[s].result = trace[s].resolver_result
                  /\ unwrap(locals[s].result).ok =>
                        /\ StatusOf(s) = OK
                        /\ unwrap(response[s]).body
                              = HtmlBody(ViewData(PageOf(s), None,
                                                  inertia.custom_view_data))

C17_Witness ==
    \E s \in Slots :
        /\ SsrFailed(s)
        /\ pc[s] = "done"
        /\ trace[s].ssr_calls = 1
        /\ trace[s].resolver_calls = 1
        /\ unwrap(locals[s].result).ok
        /\ StatusOf(s) = OK
        /\ unwrap(response[s]).body.content = "html"
        /\ unwrap(response[s]).body.ssr_page = None

\* C18: a request issues at most one SSR call; none when SSR is disabled,
\* when the request is hydrated or when it ends in a forced refresh; and
\* every issued call returns.
C18_OneSsrCallThatReturns ==
    /\ [](\A s \in Slots :
            /\ trace[s].ssr_calls <= 1
            /\ (\/ inertia.ssr_url = None
                \/ Hydrated(s)
                \/ locals[s].forced) => trace[s].ssr_calls = 0)
    /\ \A s \in Slots : (pc[s] = "ssr") ~> (pc[s] # "ssr")

C18_Witness ==
    \E s \in Slots :
        /\ pc[s] = "done"
        /\ SsrFailed(s)
        /\ trace[s].ssr_calls = 1
        /\ trace[s].resolver_calls = 1

\* The template resolver called for the request has returned an error.
ResolverFailed(s) ==
    /\ is_some(trace[s].resolver_result)
    /\ ~unwrap(trace[s].resolver_result).ok

\* C19: when the template resolver returns an error, whatever the error,
\* render_with_props returns that error, the response is 500 and holds no
\* html, and the resolver has been called once, whether SSR succeeded or
\* not.
C19_TemplateErrorIsReturned ==
    \A s \in Slots :
        ResolverFailed(s) =>
            /\ ~Hydrated(s)
            /\ pc[s] = "done"
            /\ locals[s].result = trace[s].resolver_result
            /\ StatusOf(s) = INTERNAL_SERVER_ERROR
            /\ unwrap(response[s]).body.content # "html"
            /\ request[s].route.on_err = "return" =>
                  unwrap(response[s]).body
                      = TextBody(get_cause(unwrap(locals[s].result).error))
            /\ trace[s].resolver_calls = 1

C19_Witness ==
    \E s \in Slots :
        /\ pc[s] = "done"
        /\ ResolverFailed(s)
        /\ unwrap(locals[s].result).error
              = InertiaError("SsrError",
                    <<"Failed to open root layout at ",
                      "tests/common/root_layout.html", ": ",
                      "Is a directory (os error 21)">>)
        /\ trace[s].resolver_calls = 1
        /\ is_some(locals[s].ssr_page)
        /\ trace[s].ssr_calls = 1
        /\ StatusOf(s) = INTERNAL_SERVER_ERROR

\* The pages the responses of the requests in progress hold.
PagesSent ==
    UNION {unwrap(response[s]).body.page :
              s \in {x \in Slots : is_some(response[x])}}

\* C20: a version resolver is called once, when the instance is built, and
\* a literal needs no call; from then on the instance never changes, and
\* the version every request is checked against and every page holds is
\* the value resolved at construction.
C20_VersionResolvedOnce ==
    /\ [](/\ inertia.resolver_calls
               = (IF inertia.configured.kind = "Resolver" THEN 1 ELSE 0)
          /\ inertia.version = inertia.configured.value
          /\ \A page \in PagesSent : page.version = Some(inertia.version)
          /\ \A s \in Slots : \A i \in DOMAIN trace[s].checks :
                trace[s].checks[i] =
                    (VersionHeader(s) \in
                        {None, Some(Text(Str(inertia.version)))}))
    /\ [][inertia' = inertia]_vars

C20_Witness ==
    /\ inertia.configured.kind = "Resolver"
    /\ served = MaxRequests
    /\ \E s \in Slots :
          /\ pc[s] = "done"
          /\ trace[s].checks # <<>>
          /\ PagesSent # {}

\* ------------------------------------------------------------------------
\* The props of the page (checked under Spec)
\* ------------------------------------------------------------------------

\* The route props of the request, resolved with its request type.
RouteResolved(s) ==
    resolve_props(request[s].route.props,
                  get_request_type(request[s]).value).props

\* The shared props the request carries, resolved with its request type.
SharedResolved(s) ==
    resolve_props(SharedTable(extensions[s]),
                  get_request_type(request[s]).value).props

\* A page has been built for the request.
PageBuilt(s) == is_some(locals[s].page)

\* C21: the props of a page are the resolved route props and the resolved
\* shared props, both resolved with the request's type: every resolved
\* shared key is there with the shared value, every shared Always prop is
\* there, every resolved route key is there, with the route value unless a
\* shared prop has the same name, and there is no other key.
C21_PagePropsAreRouteAndShared ==
    \A s \in Slots :
        PageBuilt(s) =>
            LET props == unwrap(locals[s].page).props
                shared == SharedTable(extensions[s])
            IN  /\ DOMAIN props
                     = DOMAIN RouteResolved(s) \cup DOMAIN SharedResolved(s)
                /\ \A k \in DOMAIN SharedResolved(s) :
                      props[k] = SharedResolved(s)[k]
                /\ \A k \in DOMAIN shared :
                      shared[k].kind = "Always" =>
                          /\ k \in DOMAIN props
                          /\ props[k] = shared[k].value
                /\ \A k \in DOMAIN RouteResolved(s) \ DOMAIN SharedResolved(s) :
                      props[k] = RouteResolved(s)[k]

C21_Witness ==
    \E s \in Slots :
        /\ PageBuilt(s)
        /\ "events" \in DOMAIN RouteResolved(s)
        /\ "events" \in DOMAIN SharedResolved(s)
        /\ RouteResolved(s)["events"] = "x"
        /\ unwrap(locals[s].page).props["events"] = "y"
        /\ unwrap(locals[s].page).props["sharedProperty"] = "x"
        /\ unwrap(locals[s].page).props["categories"] = "y"

\* ------------------------------------------------------------------------
\* The middleware around a redirecting service
\* ------------------------------------------------------------------------

\* The methods of the explored requests.
Methods == {"GET", "HEAD", "POST", "PUT", "PATCH", "DELETE", "OPTIONS"}

\* The statuses the inner service answers with.
InnerStatuses ==
    {OK, MOVED_PERMANENTLY, FOUND, SEE_OTHER, 307, 308, 404, CONFLICT,
     INTERNAL_SERVER_ERROR}

\* The header sets of the requests sent to the redirecting services.
RedirectHeaderSets ==
    {[h \in RequestHeaderNames |->
        CASE h = X_INERTIA         -> hydrated
          [] h = X_INERTIA_VERSION -> version
          [] OTHER                 -> None] :
        hydrated \in OptionOf({Text(Str("true"))}),
        version \in OptionOf({Text(Str(v)) : v \in Versions})}

\* An application wrapped in InertiaMiddleware has received one request for
\* a service that answers with a status of its own.
InitRewrite ==
    /\ raw_props = EmptyMap
    /\ req_type = Standard
    /\ resolved = NotCalled
    /\ classified = NotClassified
    /\ inertia = instantiate(TemplateOf(Literal("v1")).path, Literal("v1"),
                             TemplateOf(Literal("v1")).resolver, None)
    /\ app = [data |-> TRUE, middleware |-> TRUE, shared_props |-> EmptyMap]
    /\ storage = <<>>
    /\ served = 1
    /\ \E method \in Methods : \E status \in InnerStatuses :
       \E hs \in RedirectHeaderSets :
          request = [s \in Slots |->
                        IF s = 1
                        THEN HttpRequest(Route(method, "/redirect", "redirect",
                                               "", EmptyMap, status,
                                               "return"), hs)
                        ELSE NoRequest]
    /\ extensions = [s \in Slots |-> NoExtensions]
    /\ locals = [s \in Slots |-> NoLocals]
    /\ pc = [s \in Slots |-> IF s = 1 THEN "mw_call" ELSE "idle"]
    /\ response = [s \in Slots |-> None]
    /\ trace = [s \in Slots |-> NoTrace(EmptyMap, None)]
    /\ NoSetup

NextRewrite ==
    \E s \in SeqSlots :
        \/ MiddlewareCall(s)
        \/ MiddlewareForcesRefresh(s)
        \/ MiddlewareAwaitsService(s)
        \/ RedirectHandler(s)

\* Every method and every inner status, through InertiaMiddleware.
SpecRewrite == InitRewrite /\ [][NextRewrite]_vars

\* The middleware awaited the inner service, which answered with a status
\* of its own.
ServiceAnswered(s) ==
    /\ pc[s] = "done"
    /\ app.middleware
    /\ request[s].route.handler = "redirect"
    /\ ~locals[s].forced

\* C22: for a fresh request through InertiaMiddleware the returned status
\* is 303 when the method is PUT, PATCH or DELETE and the inner service
\* answered 301 or 302, and the inner service's status otherwise.
C22_RedirectsBecomeSeeOther ==
    \A s \in Slots :
        ServiceAnswered(s) =>
            StatusOf(s) =
                (IF request[s].method \in {"PUT", "PATCH", "DELETE"}
                    /\ request[s].route.status \in {301, 302}
                 THEN 303
                 ELSE request[s].route.status)

C22_Witness ==
    \E s \in Slots :
        /\ ServiceAnswered(s)
        /\ request[s].method = "PATCH"
        /\ request[s].route.status = 302
        /\ StatusOf(s) = 303

\* ------------------------------------------------------------------------
\* The configuration builder on its own
\* ------------------------------------------------------------------------

\* InertiaConfigBuilder::new() has been called; nothing else exists.
InitBuilder ==
    /\ raw_props = EmptyMap
    /\ req_type = Standard
    /\ resolved = NotCalled
    /\ classified = NotClassified
    /\ inertia = instantiate(TemplateOf(Literal("v1")).path, Literal("v1"),
                             TemplateOf(Literal("v1")).resolver, None)
    /\ app = [data |-> TRUE, middleware |-> FALSE, shared_props |-> EmptyMap]
    /\ Idle
    /\ builder = Some(InertiaConfigBuilder_new)
    /\ config = None
    /\ setters = NoSetters
    /\ node = NoNode
    /\ main = NoMain

\* A setter takes the builder and gives back `next`; `field` has then been
\* set to `value`.
SetterCall(next, field, value) ==
    /\ is_some(builder)
    /\ builder' = Some(next)
    /\ setters' = [setters EXCEPT !.last[field] = Some(value)]
    /\ UNCHANGED <<propVars, inertia, app, config, node, main, storage,
                   served, slotVars>>

SetSsrClient ==
    \E v \in FieldValues["custom_ssr_client"] :
        SetterCall(set_ssr_client(unwrap(builder), v), "custom_ssr_client", v)

SetUrl ==
    \E v \in FieldValues["url"] :
        SetterCall(set_url(unwrap(builder), v), "url", v)

SetVersion ==
    \E v \in FieldValues["version"] :
        SetterCall(set_version(unwrap(builder), v), "version", v)

SetTemplatePath ==
    \E v \in FieldValues["template_path"] :
        SetterCall(set_template_path(unwrap(builder), v), "template_path", v)

SetTemplateResolver ==
    \E v \in FieldValues["template_resolver"] :
        SetterCall(set_template_resolver(unwrap(builder), v),
                   "template_resolver", v)

SetTemplateResolverData ==
    \E v \in FieldValues["template_resolver_data"] :
        SetterCall(set_template_resolver_data(unwrap(builder), v),
                   "template_resolver_data", v)

SetViewData ==
    \E v \in FieldValues["view_data"] :
        SetterCall(set_view_data(unwrap(builder), v), "view_data", v)

EnableSsr ==
    /\ is_some(builder)
    /\ builder' = Some(enable_ssr(unwrap(builder)))
    /\ setters' = [setters EXCEPT !.enable_ssr = TRUE]
    /\ UNCHANGED <<propVars, inertia, app, config, node, main, storage,
                   served, slotVars>>

\* build(self): the builder is moved into the call, which returns the
\* InertiaConfig or panics.
Build ==
    /\ is_some(builder)
    /\ config' = Some(build(unwrap(builder)))
    /\ builder' = None
    /\ UNCHANGED <<propVars, inertia, app, setters, node, main, storage,
                   served, slotVars>>

NextBuilder ==
    \/ SetSsrClient
    \/ SetUrl
    \/ SetVersion
    \/ SetTemplatePath
    \/ SetTemplateResolver
    \/ SetTemplateResolverData
    \/ SetViewData
    \/ EnableSsr
    \/ Build

\* Every sequence of setter calls, ended by build.
SpecBuilder == InitBuilder /\ [][NextBuilder]_vars

\* The mandatory fields no setter call has set.
NeverSet ==
    {f \in {MandatoryFields[i] : i \in DOMAIN MandatoryFields} :
        setters.last[f] = None}

\* C23: build panics exactly when a mandatory field has never been set;
\* when it returns, every mandatory field of the config holds the last
\* value set for it, custom_ssr_client and view_data hold the last value
\* set or None, and with_ssr is true only if enable_ssr has been called.
C23_BuildPanicsIffMandatoryUnset ==
    \A result \in config :
        /\ result.panicked <=> NeverSet # {}
        /\ ~result.panicked =>
              /\ \A i \in DOMAIN MandatoryFields :
                    Some(result.value[MandatoryFields[i]])
                        = setters.last[MandatoryFields[i]]
              /\ \A f \in OptionalFields :
                    result.value[f] = setters.last[f]
              /\ result.value.with_ssr = setters.enable_ssr

C23_Witness ==
    \E result \in config :
        /\ ~result.panicked
        /\ result.value.url = "foo"
        /\ result.value.version = Resolver("v2")
        /\ result.value.view_data = None
        /\ result.value.custom_ssr_client = None
        /\ ~result.value.with_ssr

\* build panicked although four of the five mandatory fields were set.
C23_WitnessPanic ==
    \E result \in config :
        /\ result.panicked
        /\ result.field = "version"
        /\ NeverSet = {"version"}

\* ------------------------------------------------------------------------
\* The server program and its renderer process
\* ------------------------------------------------------------------------

\* The addresses of the SSR server.
SsrUrls == {"http://127.0.0.1:1000", "http://127.0.0.1:13714"}

\* main has built the Inertia instance and bound the listener.  The
\* program of examples/actix_ssr drops the future of kill; a program that
\* awaits it is explored next to it.
InitNode ==
    /\ raw_props = EmptyMap
    /\ req_type = Standard
    /\ resolved = NotCalled
    /\ classified = NotClassified
    /\ \E ssr_url \in OptionOf(SsrUrls) :
          inertia = instantiate(TemplateOf(Resolver("v2")).path,
                                Resolver("v2"),
                                TemplateOf(Resolver("v2")).resolver, ssr_url)
    /\ app = [data |-> TRUE, middleware |-> TRUE, shared_props |-> EmptyMap]
    /\ Idle
    /\ builder = None
    /\ config = None
    /\ setters = NoSetters
    /\ node = NoNode
    /\ \E awaits_kill \in BOOLEAN :
          main = [pc |-> "bound", awaits_kill |-> awaits_kill,
                  result |-> None]

\* The Results of Command::new("node").spawn(): the child, or the io::Error
\* of a `node` that is not on PATH or is not executable.
SpawnResults ==
    {Ok("child")}
    \cup {Err(err) : err \in {"No such file or directory (os error 2)",
                              "Permission denied (os error 13)"}}

\* inertia_data.start_node_server("dist/ssr/ssr.js".into())?
StartNodeServer ==
    /\ main.pc = "bound"
    /\ \E path_exists \in BOOLEAN : \E spawned \in SpawnResults :
          LET started == start_node_server(inertia, "dist/ssr/ssr.js",
                                           path_exists, spawned)
          IN  IF started.ok
              THEN /\ node' = started.value
                   /\ main' = [main EXCEPT !.pc = "serving"]
              ELSE /\ node' = node
                   /\ main' = [main EXCEPT !.pc = "ended",
                                           !.result = Some(started)]
    /\ UNCHANGED <<propVars, inertia, app, builder, config, setters, storage,
                   served, slotVars>>

\* server.run().await: the listener serves a request.
Serve ==
    /\ main.pc = "serving"
    /\ served < MaxRequests
    /\ served' = served + 1
    /\ UNCHANGED <<propVars, bootVars, storage, slotVars>>

\* server.run().await returns: the listener has stopped.
RunReturns ==
    /\ main.pc = "serving"
    /\ \E server \in {Ok("()"), Err("io")} :
          main' = [main EXCEPT !.pc = "stopped", !.result = Some(server)]
    /\ UNCHANGED <<propVars, inertia, app, builder, config, setters, node,
                   storage, served, slotVars>>

\* std::mem::drop(node.kill())
KillDropped ==
    /\ main.pc = "stopped"
    /\ ~main.awaits_kill
    /\ node.handle = "owned"
    /\ node' = kill_dropped(node)
    /\ main' = [main EXCEPT !.pc = "killed"]
    /\ UNCHANGED <<propVars, inertia, app, builder, config, setters, storage,
                   served, slotVars>>

\* node.kill().await, up to the await of the shutdown request.
KillAwaited ==
    /\ main.pc = "stopped"
    /\ main.awaits_kill
    /\ node.handle = "owned"
    /\ node' = kill_sends(node)
    /\ main' = [main EXCEPT !.pc = "killing"]
    /\ UNCHANGED <<propVars, inertia, app, builder, config, setters, storage,
                   served, slotVars>>

\* send() returns Ok: the shutdown request was answered, with whatever
\* status, whether or not the renderer still runs when kill resumes.  kill
\* returns and leaves the child as it is.
ShutdownAnswered ==
    /\ node.kill = "sending"
    /\ node' = kill_resumes(node, "Ok")
    /\ main' = [main EXCEPT !.pc = "killed"]
    /\ UNCHANGED <<propVars, inertia, app, builder, config, setters, storage,
                   served, slotVars>>

\* The shutdown request fails: the renderer is gone, or does not answer.
ShutdownFails ==
    /\ node.kill = "sending"
    /\ node' = kill_resumes(node, "Err")
    /\ main' = [main EXCEPT !.pc = "killed"]
    /\ UNCHANGED <<propVars, inertia, app, builder, config, setters, storage,
                   served, slotVars>>

\* The renderer process ends, on its own or for a shutdown request it
\* answered: a step of that process, whatever main is doing.
ChildExits ==
    /\ node.child = "running"
    /\ node' = [node EXCEPT !.child = "exited"]
    /\ UNCHANGED <<propVars, inertia, app, builder, config, setters, main,
                   storage, served, slotVars>>

\* println!("Inertia SSR server shutdown."); server
MainReturns ==
    /\ main.pc = "killed"
    /\ main' = [main EXCEPT !.pc = "ended"]
    /\ UNCHANGED <<propVars, inertia, app, builder, config, setters, node,
                   storage, served, slotVars>>

NextNode ==
    \/ StartNodeServer
    \/ Serve
    \/ RunReturns
    \/ KillDropped
    \/ KillAwaited
    \/ ShutdownAnswered
    \/ ShutdownFails
    \/ ChildExits
    \/ MainReturns

\* The server program from the start of the renderer to its end.
SpecNode == InitNode /\ [][NextNode]_vars

\* The shutdown request of the handle: GET {server}/shutdown.
ShutdownRequest == node.server \o <<"/shutdown">>

\* C24: NodeJsProc::kill sends the shutdown request to the handle's
\* address first; force_kill is called only while kill waits for or has the
\* failed answer of that request, and once kill has returned it has been
\* called exactly when the request failed; the handle is moved into the
\* call, so kill is never called twice.
C24_KillAsksThenForces ==
    /\ [](/\ node.kill \in {"sending", "returned"} =>
                /\ node.requests = <<ShutdownRequest>>
                /\ node.handle = "moved"
          /\ node.kill = "returned" =>
                (node.force_kills = 1 <=> node.resp = Some("Err"))
          /\ node.force_kills > 0 =>
                /\ node.requests = <<ShutdownRequest>>
                /\ node.resp = Some("Err")
                /\ node.force_kills = 1
          /\ node.child = "killed" => node.resp = Some("Err"))
    /\ [][/\ node.force_kills' # node.force_kills => node.kill = "sending"
          /\ node.requests' # node.requests =>
                /\ node.kill = "none"
                /\ node.handle = "owned"
                /\ node.force_kills = 0
          /\ node.handle = "moved" => node.handle' = "moved"]_vars

C24_Witness ==
    /\ node.kill = "returned"
    /\ node.requests = <<ShutdownRequest>>
    /\ node.resp = Some("Err")
    /\ node.force_kills = 1
    /\ node.child = "killed"
    /\ node.handle = "moved"

\* The shutdown request was answered: kill has returned without force_kill
\* and the renderer still runs.
C24_WitnessGraceful ==
    /\ node.kill = "returned"
    /\ node.requests = <<ShutdownRequest>>
    /\ node.resp = Some("Ok")
    /\ node.force_kills = 0
    /\ node.child = "running"

\* C25 as stated: when the example's main ends after its listener has
\* stopped, the renderer has been stopped: the shutdown request has been
\* sent once, after the listener stopped, and no renderer process is left
\* running.
C25_RendererStoppedAtExit ==
    (/\ main.pc = "ended"
     /\ ~main.awaits_kill
     /\ node.handle # "none") =>
        /\ Len(node.requests) = 1
        /\ node.child # "running"

\* ------------------------------------------------------------------------
\* Requests handled concurrently
\* ------------------------------------------------------------------------

\* The header sets of the requests handled concurrently.
ConcurrentHeaderSets(route) ==
    {[h \in RequestHeaderNames |->
        CASE h = X_INERTIA                   -> hydrated
          [] h = X_INERTIA_VERSION           -> Some(Text(Str(version)))
          [] h = X_INERTIA_PARTIAL_COMPONENT ->
                IF partial THEN Some(Text(Str("Events"))) ELSE None
          [] h = X_INERTIA_PARTIAL_DATA      ->
                IF partial THEN Some(Text(<<"events">>)) ELSE None
          [] h = X_INERTIA_PARTIAL_EXCEPT    -> None] :
        hydrated \in OptionOf({Text(Str("true"))}),
        version \in Versions,
        partial \in (IF route.handler = "render" THEN BOOLEAN ELSE {FALSE})}

\* The services the concurrent requests are sent to.
ConcurrentRoutes ==
    {r \in Routes : r.uri = "/events" \/ r.method = "PUT"}

\* The requests handled concurrently, each with the session it carries.
ConcurrentArrivals ==
    UNION {{[request |-> HttpRequest(route, headers), session |-> session] :
               headers \in ConcurrentHeaderSets(route),
               session \in OptionOf(InertiaTemporarySession)} :
           route \in ConcurrentRoutes}

\* Two requests have arrived at the same time.
InitConcurrent ==
    /\ raw_props = EmptyMap
    /\ req_type = Standard
    /\ resolved = NotCalled
    /\ classified = NotClassified
    /\ \E ssr_url \in OptionOf({"http://127.0.0.1:13714"}) :
          inertia = instantiate(TemplateOf(Literal("v1")).path,
                                Literal("v1"),
                                TemplateOf(Literal("v1")).resolver, ssr_url)
    /\ \E middleware \in BOOLEAN :
          app = [data |-> TRUE, middleware |-> middleware,
                 shared_props |->
                     IF middleware
                     THEN CHOOSE cb \in SharedPropsCallbacks : cb # EmptyMap
                     ELSE EmptyMap]
    /\ storage = <<>>
    /\ served = Cardinality(Slots)
    /\ \E arrived \in [Slots -> ConcurrentArrivals] :
          /\ request = [s \in Slots |-> arrived[s].request]
          /\ extensions = [s \in Slots |->
                              [session |-> arrived[s].session,
                               shared |-> None]]
          /\ trace = [s \in Slots |->
                         NoTrace(arrived[s].request.route.props,
                                 arrived[s].session)]
    /\ locals = [s \in Slots |-> NoLocals]
    /\ pc = [s \in Slots |-> IF app.middleware THEN "mw_call" ELSE "service"]
    /\ response = [s \in Slots |-> None]
    /\ NoSetup

\* The handling of the requests, interleaved at every step.
NextConcurrent ==
    \E s \in Slots :
        \/ MiddlewareCall(s)
        \/ MiddlewareForcesRefresh(s)
        \/ MiddlewareAwaitsService(s)
        \/ RedirectHandler(s)
        \/ RenderHandler(s)
        \/ SsrRenders(s)
        \/ SsrFails(s)
        \/ TemplateRenders(s)
        \/ TemplateFails(s)

SpecConcurrent == InitConcurrent /\ [][NextConcurrent]_vars

\* The responses the inner service can give to `req` arriving with the
\* extensions `ext`, when it is the only request: the redirect of a
\* redirect handler; for a page handler, what render_with_props returns,
\* with every outcome of the SSR server and of the template resolver.
ServedAlone(req, ext) ==
    IF req.route.handler = "redirect"
    THEN {HttpResponse(req.route.status, (LOCATION :> "/"), NoBody)}
    ELSE LET step == render_with_props(inertia, req, ext,
                                       req.route.component, req.route.props)
         IN  IF step.next = "return"
             THEN {HandlerResponse(req.route, unwrap(step.result))}
             ELSE UNION {
                    LET view_data == ViewData(unwrap(step.page), ssr_page,
                                              inertia.custom_view_data)
                    IN  {IF html.ok THEN html_response(view_data)
                         ELSE HandlerResponse(req.route, html) :
                            html \in ResolverResults(view_data)} :
                    ssr_page \in (IF step.next = "ssr"
                                  THEN {None, Some(SsrPage)}
                                  ELSE {None})}

\* The responses the application can give to `req` arriving with
\* `session`, when it is the only request.
HandledAlone(req, session) ==
    IF ~app.middleware
    THEN ServedAlone(req, [session |-> session, shared |-> None])
    ELSE IF ~check_inertia_version(req, inertia.version)
    THEN {location(req, req.uri)}
    ELSE {[res EXCEPT !.status = rewritten_status(req.method, @)] :
             res \in ServedAlone(req,
                        [session |-> None,
                         shared |-> Some(with_session_errors(
                                            app.shared_props, session))])}

\* C26: while requests are handled concurrently the Inertia instance never
\* changes, and the response of every request is one the application gives
\* to that request when it is handled alone.
C26_RequestsDoNotInterfere ==
    /\ [](\A s \in Slots :
             pc[s] = "done" =>
                 unwrap(response[s]) \in HandledAlone(request[s],
                                                      trace[s].carried))
    /\ [][inertia' = inertia /\ app' = app]_vars

\* Both requests are answered, one with a page that holds the errors of its
\* session, the other, without a session, with a page that has none, after
\* the two have been in the middleware's future together.
C26_Witness ==
    /\ pc[1] = "done" /\ pc[2] = "done"
    /\ is_some(trace[1].carried) /\ trace[2].carried = None
    /\ is_some(locals[1].page) /\ is_some(locals[2].page)
    /\ "errors" \in DOMAIN unwrap(locals[1].page).props
    /\ "errors" \notin DOMAIN unwrap(locals[2].page).props
    /\ StatusOf(1) = OK /\ StatusOf(2) = OK

\* ------------------------------------------------------------------------
\* Classification and version negotiation (checked under Spec)
\* ------------------------------------------------------------------------

\* C27 as stated: a request to a page handler whose partial headers cannot
\* be classified ends with the classification error and never with a
\* forced refresh, stale or not, with and without the middleware.
C27_ClassificationPrecedesVersion ==
    \A s \in Slots :
        (PageAnswered(s) /\ Unclassifiable(s)) =>
            /\ ~locals[s].forced
            /\ ClassificationFailed(s)
            /\ StatusOf(s) \notin {FOUND, CONFLICT}

\* ------------------------------------------------------------------------
\* The errors of the temporary session
\* ------------------------------------------------------------------------

\* A prop named errors of the route or of the shared props callback.
OwnErrors(kind, value) == [kind |-> kind, value |-> value]

\* The props of the page handler: with and without a prop named errors.
ErrorsRouteProps ==
    {EventsProps, Insert(EventsProps, "errors", OwnErrors("Data", "x"))}

\* The shared props callbacks: with and without a prop named errors.
ErrorsSharedProps ==
    SharedPropsCallbacks
        \cup {Insert(cb, "errors", OwnErrors("Lazy", "y")) :
                 cb \in SharedPropsCallbacks \ {EmptyMap}}

\* The header sets of the requests: standard visits and partial reloads,
\* aimed at the page's component or at another one, that list errors, or
\* do not, in only or in except.
ErrorsHeaderSets ==
    {[h \in RequestHeaderNames |->
        CASE h = X_INERTIA                   -> hydrated
          [] h = X_INERTIA_VERSION           -> version
          [] h = X_INERTIA_PARTIAL_COMPONENT -> partial_comp
          [] h = X_INERTIA_PARTIAL_DATA      -> partial_data
          [] h = X_INERTIA_PARTIAL_EXCEPT    -> partial_except] :
        hydrated \in OptionOf({Text(Str("true"))}),
        version \in OptionOf({Text(Str(v)) : v \in Versions}),
        partial_comp \in OptionOf({Text(Str("Events")), Text(Str("Index"))}),
        partial_data \in OptionOf({Text(<<"events">>), Text(<<"errors">>)}),
        partial_except \in OptionOf({Text(<<"errors">>)})}

\* An application wrapped in InertiaMiddleware has received one request
\* for a page, with or without an InertiaTemporarySession.
InitErrors ==
    /\ raw_props = EmptyMap
    /\ req_type = Standard
    /\ resolved = NotCalled
    /\ classified = NotClassified
    /\ inertia = instantiate(TemplateOf(Literal("v1")).path, Literal("v1"),
                             TemplateOf(Literal("v1")).resolver, None)
    /\ \E shared_props \in ErrorsSharedProps :
          app = [data |-> TRUE, middleware |-> TRUE,
                 shared_props |-> shared_props]
    /\ storage = <<>>
    /\ served = 1
    /\ \E props \in ErrorsRouteProps : \E hs \in ErrorsHeaderSets :
       \E session \in OptionOf(InertiaTemporarySession) :
          /\ request = [s \in Slots |->
                           IF s = 1
                           THEN HttpRequest(Route("GET", "/events", "render",
                                                  "Events", props, OK,
                                                  "return"), hs)
                           ELSE NoRequest]
          /\ extensions = [s \in Slots |->
                              IF s = 1
                              THEN [session |-> session, shared |-> None]
                              ELSE NoExtensions]
          /\ trace = [s \in Slots |->
                         IF s = 1 THEN NoTrace(props, session)
                         ELSE NoTrace(EmptyMap, None)]
    /\ locals = [s \in Slots |-> NoLocals]
    /\ pc = [s \in Slots |-> IF s = 1 THEN "mw_call" ELSE "idle"]
    /\ response = [s \in Slots |-> None]
    /\ NoSetup

NextErrors ==
    \E s \in SeqSlots :
        \/ MiddlewareCall(s)
        \/ MiddlewareForcesRefresh(s)
        \/ MiddlewareAwaitsService(s)
        \/ RenderHandler(s)
        \/ TemplateRenders(s)
        \/ TemplateFails(s)

\* Every page request, with and without props named errors, through
\* InertiaMiddleware.
SpecErrors == InitErrors /\ [][NextErrors]_vars

\* The page props of the request had the middleware added nothing: the
\* resolved route props extended with the resolved props of the shared
\* props callback.
PropsWithoutSession(s) ==
    Extend(RouteResolved(s),
           resolve_props(app.shared_props,
                         get_request_type(request[s]).value).props)

\* C28: through InertiaMiddleware, the page of a request that carried a
\* temporary session holds under errors the session's errors, whatever the
\* request type and the only and except lists, and whatever prop named
\* errors the route or the shared props callback has; the page of a
\* request that carried none holds what the route and the callback give.
C28_SessionErrorsAreShared ==
    \A s \in Slots :
        (PageBuilt(s) /\ app.middleware) =>
            LET props == unwrap(locals[s].page).props
            IN  IF is_some(trace[s].carried)
                THEN /\ "errors" \in DOMAIN props
                     /\ props["errors"]
                            = to_value(unwrap(trace[s].carried).errors)
                ELSE props = PropsWithoutSession(s)

C28_Witness ==
    \E s \in Slots :
        /\ PageBuilt(s)
        /\ pc[s] = "done"
        /\ request[s].headers[X_INERTIA_PARTIAL_COMPONENT] # None
        /\ request[s].headers[X_INERTIA_PARTIAL_DATA]
              = Some(Text(<<"events">>))
        /\ "errors" \in DOMAIN request[s].route.props
        /\ "errors" \in DOMAIN app.shared_props
        /\ \E session \in trace[s].carried : is_some(session.errors)
        /\ unwrap(locals[s].page).props["errors"] \in ErrorMaps

\* A request without a session: the page has no errors key.
C28_WitnessNoSession ==
    \E s \in Slots :
        /\ PageBuilt(s)
        /\ trace[s].carried = None
        /\ "errors" \notin DOMAIN unwrap(locals[s].page).props

\* ------------------------------------------------------------------------
\* The target component of a partial reload (checked under SpecErrors)
\* ------------------------------------------------------------------------

\* The request is a partial reload.
PartialReload(s) ==
    /\ get_request_type(request[s]).ok
    /\ ~is_standard(get_request_type(request[s]).value)

\* The partial reload the request asks for.
PartialOf(s) == unwrap_partial(get_request_type(request[s]).value)

\* The entries of the route props and of the shared props of the request.
TablesOf(s) == {request[s].route.props, SharedTable(extensions[s])}

\* C29: the page of a partial reload holds the props the only and except
\* lists select, whatever the component the request names: a prop is in
\* the page only if the lists select it or it is an Always prop, every
\* prop the lists select is in the page, and the page is the one of the
\* same request naming the rendered component.
C29_TargetComponentIsNotCompared ==
    \A s \in Slots :
        (PageBuilt(s) /\ PartialReload(s)) =>
            LET props == unwrap(locals[s].page).props
                same == Partial([PartialOf(s) EXCEPT
                                    !.component =
                                        Str(request[s].route.component)])
            IN  /\ \A k \in DOMAIN props :
                      \/ should_be_pushed(k, PartialOf(s))
                      \/ \E table \in TablesOf(s) :
                            /\ k \in DOMAIN table
                            /\ table[k].kind = "Always"
                /\ \A table \in TablesOf(s) : \A k \in DOMAIN table :
                      should_be_pushed(k, PartialOf(s)) => k \in DOMAIN props
                /\ props
                     = Extend(resolve_props(request[s].route.props,
                                            same).props,
                              resolve_props(SharedTable(extensions[s]),
                                            same).props)

C29_Witness ==
    \E s \in Slots :
        /\ PageBuilt(s)
        /\ PartialReload(s)
        /\ PartialOf(s).component = Str("Index")
        /\ request[s].route.component = "Events"
        /\ PartialOf(s).only = <<"events">>
        /\ "categories" \in DOMAIN request[s].route.props
        /\ "categories" \notin DOMAIN unwrap(locals[s].page).props
        /\ "events" \in DOMAIN unwrap(locals[s].page).props
        /\ "auth" \in DOMAIN unwrap(locals[s].page).props

\* ------------------------------------------------------------------------
\* The middleware without an Inertia instance (checked under Spec)
\* ------------------------------------------------------------------------

\* C30: in an application wrapped in InertiaMiddleware that has no Inertia
\* instance in its app data, no request reaches the inner service: every
\* request that has left the middleware's future has been answered with the
\* forced refresh, 409 with x-inertia-location when it is hydrated and 302
\* with Location otherwise, whatever its version header, and nothing has
\* been resolved or rendered for it.
C30_NoInstanceForcesRefresh ==
    \A s \in Slots :
        (app.middleware /\ ~app.data) =>
            /\ pc[s] \in {"idle", "mw_call", "mw_future", "done"}
            /\ pc[s] = "done" =>
                  /\ locals[s].forced
                  /\ response[s]
                        = Some(HttpResponse(
                              IF Hydrated(s) THEN CONFLICT ELSE FOUND,
                              IF Hydrated(s)
                              THEN (X_INERTIA_LOCATION :> request[s].uri)
                              ELSE (LOCATION :> request[s].uri),
                              NoBody))
                  /\ locals[s].result = None
                  /\ NothingResolved(s)
                  /\ trace[s].ssr_calls = 0
                  /\ trace[s].resolver_calls = 0
                  /\ trace[s].checks = <<>>

C30_Witness ==
    \E s \in Slots :
        /\ app.middleware /\ ~app.data
        /\ pc[s] = "done"
        /\ VersionHeader(s) = None
        /\ Hydrated(s)
        /\ request[s].route.handler = "render"
        /\ StatusOf(s) = CONFLICT

====
